---- MODULE Spec2Model ----
(***************************************************************************)
(* A model of the state-inference core of qvis: the maximum-weight         *)
(* bipartite matching routine (hungarian_algorithm.rs), the per-orbit      *)
(* k-best stream (MatchIter / OrbitHeapElt) and the whole-puzzle lazy      *)
(* merge (PuzzleIter / PuzzleHeapElt / SavedIter / Matcher::most_likely)   *)
(* of puzzle_matching/mod.rs.                                              *)
(*                                                                         *)
(* Costs and log-likelihoods are f64 in the source; here they are          *)
(* integers, so the tolerance test |x| < E (E = 1e-9) is x = 0.            *)
(* Option<T> is modelled as a sequence: None is <<>>, Some(x) is <<x>>.    *)
(* Arrays keep the source's 0-based indices (functions over 0..n-1).       *)
(***************************************************************************)
EXTENDS Integers, Sequences, FiniteSets, Bags, TLC

VARIABLES
    hCosts,     \* maximum_matching: the `costs` argument
    hData,      \* maximum_matching: the `data` array of Element
    hPc,        \* maximum_matching: "start" | "loop" | "done" | "panic"
    hResult,    \* maximum_matching: the value returned (Option<Vec<usize>>)
    hSteps,     \* number of relax_potentials calls since the last augmentation
    oCost,      \* MatchIter.cost_matrix: the orbit's 3-D cost tensor
    oHeap,      \* MatchIter.heap: a bag of OrbitHeapElt
    oCache,     \* MatchIter.cache: Option<OrbitHeapElt>
    oOut,       \* the nodes MatchIter::next has returned so far, in order
    oPc,        \* MatchIter: "run" | "ended" (next gave None) | "panic"
    oSplit,     \* MatchIter: the positions in oOut of the nodes split so far
    pStreams,   \* the orbit streams handed to PuzzleIter, each a finite sequence
    pMembers,   \* Matcher.stab_chain: the permutations is_member accepts
    pDrawn,     \* SavedIter.saved.len() of every orbit stream
    pHeap,      \* PuzzleIter.heap: a bag of PuzzleHeapElt
    pCache,     \* PuzzleIter.cache: Option<PuzzleHeapElt>
    pOut,       \* what PuzzleIter::next has returned so far, in order
    pPc,        \* most_likely: "new" | "iter" | "returned" | "exhausted" | "panic"
    pResult,    \* most_likely: the pair returned
    pSplit,     \* PuzzleIter: the positions in pOut of the vectors split so far
    sStream,    \* SavedIter.iter: the items of the underlying iterator, in order
    sSaved,     \* SavedIter.saved
    sNexts,     \* the number of items taken from SavedIter.iter so far
    sGot,       \* the calls of SavedIter::get so far: index, value returned, items taken
    sPc,        \* SavedIter: "run" | "panic"
    qInput,     \* quickselect: the slice as it was passed in
    qArr,       \* quickselect: the slice as it is now
    qLo,        \* quickselect: where the current sub-slice starts in qArr
    qLen,       \* quickselect: slice.len() of the current sub-slice
    qFind,      \* quickselect: find_spot, relative to the current sub-slice
    qK,         \* quickselect: find_spot as it was passed in
    qPc,        \* quickselect: "loop" | "done"
    iAssign,    \* CVProcessor: the assignment it was created with
    iImageSize, \* CVProcessor: image_size
    iPixels,    \* Inference: pixels_by_sticker, sticker -> sequence of Pixel
    iCals,      \* number of calibrate calls so far
    iLast,      \* the last calibrate or infer call: None, or Some of its
                \* arguments, what it met and what it gave
    iPc,        \* CVProcessor: "new" | "ready" | "panic"
    dTree,      \* density of one index: the points of the KdTree, as added
    dQuery,     \* density of one index: the (r, g, b) of the pixel
    dN,         \* density of one index: n
    dNn,        \* density of one index: the distances nearest_n returned,
                \* nearest first
    dPc         \* density of one index: "query" | "pushed" | "panic"

hVars == <<hCosts, hData, hPc, hResult, hSteps>>
oVars == <<oCost, oHeap, oCache, oOut, oPc, oSplit>>

pVars == <<pStreams, pMembers, pDrawn, pHeap, pCache, pOut, pPc, pResult, pSplit>>

sVars == <<sStream, sSaved, sNexts, sGot, sPc>>
qVars == <<qInput, qArr, qLo, qLen, qFind, qK, qPc>>
iVars == <<iAssign, iImageSize, iPixels, iCals, iLast, iPc>>
dVars == <<dTree, dQuery, dN, dNn, dPc>>

vars == <<hCosts, hData, hPc, hResult, hSteps, oCost, oHeap, oCache, oOut, oPc, oSplit,
          pStreams, pMembers, pDrawn, pHeap, pCache, pOut, pPc, pResult, pSplit,
          sStream, sSaved, sNexts, sGot, sPc,
          qInput, qArr, qLo, qLen, qFind, qK, qPc,
          iAssign, iImageSize, iPixels, iCals, iLast, iPc,
          dTree, dQuery, dN, dNn, dPc>>

\* the variables of the components other than the one an action belongs to
OutsideHungarian == <<oVars, pVars, sVars, qVars, iVars, dVars>>
OutsideOrbit == <<hVars, pVars, sVars, qVars, iVars, dVars>>
OutsidePuzzle == <<hVars, oVars, sVars, qVars, iVars, dVars>>
OutsideSaved == <<hVars, oVars, pVars, qVars, iVars, dVars>>
OutsideQuickselect == <<hVars, oVars, pVars, sVars, iVars, dVars>>
OutsideInference == <<hVars, oVars, pVars, sVars, qVars, dVars>>
OutsideDensity == <<hVars, oVars, pVars, sVars, qVars, iVars>>

\* Option<T> of a stored scalar (a cost, an index)
None == <<>>
Some(x) == <<x>>
IsSome(o) == o # <<>>
Unwrap(o) == o[1]

\* what a call gives back: Some(val), None, or a panic (an unwrap of None)
RSome(x) == [tag |-> "Some", val |-> x]
RNone == [tag |-> "None", val |-> <<>>]
RPanic == [tag |-> "Panic", val |-> <<>>]

\* F applied to the value of x, x evaluated once
Let(x, F(_)) == CHOOSE r \in { F(v) : v \in {x} } : TRUE

RECURSIVE SumTo(_, _)
\* f[0] + ... + f[n-1]
SumTo(f, n) == IF n = 0 THEN 0 ELSE f[n - 1] + SumTo(f, n - 1)

Max2(a, b) == IF a >= b THEN a ELSE b

SetMax(S) == CHOOSE x \in S : \A y \in S : y <= x
SetMin(S) == CHOOSE x \in S : \A y \in S : x <= y

(***************************************************************************)
(* hungarian_algorithm.rs                                                  *)
(***************************************************************************)

\* #[derive(Default)] struct Node
NodeDefault ==
    [potential |-> 0, matches_with |-> None, bfs_comes_from |-> None, visited |-> FALSE]

\* #[derive(Default)] struct Element
ElementDefault == [left |-> NodeDefault, right |-> NodeDefault]

Size(costs) == Cardinality(DOMAIN costs)

\* the reduced cost of edge (i, j): left potential + right potential - cost
Slack(data, costs, i, j) ==
    data[i].left.potential + data[j].right.potential - Unwrap(costs[i][j])

RECURSIVE FapScan(_, _, _, _, _, _)
\* The BFS loops of find_augmenting_path: `cur` is current_level, `li` the
\* position in it of left_idx (1-based), `rj` the right_idx about to be
\* examined, `next` is next_level.  Returns the endpoint and the BFS marks.
FapScan(data, costs, cur, next, li, rj) ==
    IF li > Len(cur) THEN
        IF next = <<>> THEN [endpoint |-> None, data |-> data]
        ELSE FapScan(data, costs, next, <<>>, 1, 0)
    ELSE IF rj = Size(costs) THEN FapScan(data, costs, cur, next, li + 1, 0)
    ELSE IF /\ IsSome(costs[cur[li]][rj])
            /\ ~data[rj].right.visited
            /\ Slack(data, costs, cur[li], rj) = 0
    THEN Let([data EXCEPT ![rj].right.bfs_comes_from = Some(cur[li]),
                          ![rj].right.visited = TRUE], LAMBDA d1 :
            IF IsSome(d1[rj].right.matches_with) THEN
                Let(Unwrap(d1[rj].right.matches_with), LAMBDA new_left :
                    IF ~d1[new_left].left.visited THEN
                        Let([d1 EXCEPT ![new_left].left.bfs_comes_from = Some(rj),
                                       ![new_left].left.visited = TRUE], LAMBDA d2 :
                            Let(Append(next, new_left), LAMBDA next2 :
                                FapScan(d2, costs, cur, next2, li, rj + 1)))
                    ELSE FapScan(d1, costs, cur, next, li, rj + 1))
            ELSE [endpoint |-> Some(rj), data |-> d1])
    ELSE FapScan(data, costs, cur, next, li, rj + 1)

\* find_augmenting_path: reset the BFS tracker, then search from start_from
find_augmenting_path(start_from, data, costs) ==
    Let([k \in DOMAIN data |->
            [left  |-> [data[k].left  EXCEPT !.bfs_comes_from = None,
                                             !.visited = (k = start_from)],
             right |-> [data[k].right EXCEPT !.bfs_comes_from = None, !.visited = FALSE]]],
        LAMBDA d0 : FapScan(d0, costs, <<start_from>>, <<>>, 1, 0))

\* toggle_augmenting_path that matches the last edge of the path and stops
toggle_augmenting_path_LastEdge(endpoint, data) ==
    Let(Unwrap(data[endpoint].right.bfs_comes_from), LAMBDA left_side :
        [data EXCEPT ![endpoint].right.matches_with = Some(left_side),
                     ![left_side].left.matches_with = Some(endpoint)])

RECURSIVE toggle_augmenting_path(_, _)
\* toggle_augmenting_path: xor the matching with the path ending at endpoint
toggle_augmenting_path(endpoint, data) ==
    Let(Unwrap(data[endpoint].right.bfs_comes_from), LAMBDA left_side :
        Let([data EXCEPT ![endpoint].right.matches_with = Some(left_side),
                         ![left_side].left.matches_with = Some(endpoint)], LAMBDA d1 :
            IF IsSome(d1[left_side].left.bfs_comes_from)
            THEN toggle_augmenting_path(Unwrap(d1[left_side].left.bfs_comes_from), d1)
            ELSE d1))

\* the slacks relax_potentials takes the minimum of
RelaxSlacks(data, costs) ==
    { Slack(data, costs, e[1], e[2]) :
        e \in { p \in (DOMAIN costs) \X (DOMAIN costs) :
                  /\ IsSome(costs[p[1]][p[2]])
                  /\ data[p[1]].left.visited
                  /\ ~data[p[2]].right.visited } }

\* RelaxByDelta that lowers the visited left nodes and leaves the right ones
RelaxByDelta_LeftOnly(data, delta) ==
    [k \in DOMAIN data |->
        [left  |-> IF data[k].left.visited
                   THEN [data[k].left EXCEPT !.potential = @ - delta]
                   ELSE data[k].left,
         right |-> data[k].right]]

\* the update of relax_potentials: visited left nodes go down by delta,
\* visited right nodes go up by delta
RelaxByDelta(data, delta) ==
    [k \in DOMAIN data |->
        [left  |-> IF data[k].left.visited
                   THEN [data[k].left EXCEPT !.potential = @ - delta]
                   ELSE data[k].left,
         right |-> IF data[k].right.visited
                   THEN [data[k].right EXCEPT !.potential = @ + delta]
                   ELSE data[k].right]]

\* relax_potentials with a step of 1 in place of the least slack
relax_potentials_UnitStep(data, costs) ==
    Let(RelaxSlacks(data, costs), LAMBDA S :
        IF S = {} THEN [ok |-> FALSE, data |-> data]
        ELSE IF SetMin(S) = 0 THEN [ok |-> FALSE, data |-> data]
        ELSE [ok |-> TRUE, data |-> RelaxByDelta(data, 1)])

\* relax_potentials: [ok |-> whether anything was relaxed, data |-> new data]
relax_potentials(data, costs) ==
    Let(RelaxSlacks(data, costs), LAMBDA S :
        IF S = {} THEN [ok |-> FALSE, data |-> data]
        ELSE Let(SetMin(S), LAMBDA delta :
                 IF delta = 0 THEN [ok |-> FALSE, data |-> data]
                 ELSE [ok |-> TRUE, data |-> RelaxByDelta(data, delta)]))

\* the defined entries of the table
DefinedCosts(costs) ==
    { Unwrap(costs[p[1]][p[2]]) : p \in { q \in (DOMAIN costs) \X (DOMAIN costs) :
                                            IsSome(costs[q[1]][q[2]]) } }

\* the left nodes with no match; the main loop takes the first
Unmatched(data) == { i \in DOMAIN data : ~IsSome(data[i].left.matches_with) }

\* InitialData with the least defined cost in place of the greatest
InitialData_LeastCost(costs) ==
    Let(SetMin(DefinedCosts(costs)), LAMBDA min_cost :
        [k \in DOMAIN costs |-> [ElementDefault EXCEPT !.left.potential = min_cost]])

\* data as maximum_matching sets it up before the main loop: every left
\* potential is the greatest defined cost (the source names it min_cost)
InitialData(costs) ==
    Let(SetMax(DefinedCosts(costs)), LAMBDA min_cost :
        [k \in DOMAIN costs |-> [ElementDefault EXCEPT !.left.potential = min_cost]])

\* the Vec maximum_matching returns when every left node is matched
MatchingOf(data) == [k \in DOMAIN data |-> Unwrap(data[k].left.matches_with)]

RECURSIVE HungarianLoop(_, _)
\* the `while let` loop of maximum_matching, run to its end
HungarianLoop(data, costs) ==
    IF Unmatched(data) = {} THEN RSome(MatchingOf(data))
    ELSE Let(find_augmenting_path(SetMin(Unmatched(data)), data, costs), LAMBDA r :
            IF IsSome(r.endpoint)
            THEN Let(toggle_augmenting_path(Unwrap(r.endpoint), r.data), LAMBDA d :
                     HungarianLoop(d, costs))
            ELSE Let(relax_potentials(r.data, costs), LAMBDA x :
                     IF x.ok THEN HungarianLoop(x.data, costs) ELSE RNone))

\* maximum_matching as a function: Some(matching), None, or a panic (the
\* unwrap of the maximum over no defined entry)
maximum_matching(costs) ==
    IF Size(costs) = 0 THEN RSome(<<>>)
    ELSE IF DefinedCosts(costs) = {} THEN RPanic
    ELSE Let(InitialData(costs), LAMBDA d : HungarianLoop(d, costs))

(***************************************************************************)
(* puzzle_matching/mod.rs: OrbitHeapElt                                    *)
(***************************************************************************)

\* Iterator::max_by over the orientations in S: the last of the maxima
ArgMaxLast(row, S) ==
    CHOOSE o \in S : \A q \in S : row[q] < row[o] \/ (row[q] = row[o] /\ q <= o)

\* mk_matching: None when there is no matching, else Some(<<matching, log_likelihood>>)
\* with matching[i] = <<piece, orientation>>; a panic of maximum_matching propagates
mk_matching(cost_matrix_2d, oris_chosen) ==
    Let(maximum_matching(cost_matrix_2d), LAMBDA m :
        IF m.tag # "Some" THEN m
        ELSE RSome(<< [i \in DOMAIN cost_matrix_2d |->
                         <<m.val[i], Unwrap(oris_chosen[i][m.val[i]])>>],
                      SumTo([i \in DOMAIN cost_matrix_2d |->
                               Unwrap(cost_matrix_2d[i][m.val[i]])], Size(cost_matrix_2d)) >>))

Oris(cost_matrix_3d) == DOMAIN cost_matrix_3d[0][0]

\* Maxima taking orientation 0 in every cell
Maxima_FirstOri(cost_matrix_3d) ==
    [i \in DOMAIN cost_matrix_3d |-> [j \in DOMAIN cost_matrix_3d |-> 0]]

\* the per-cell maxima OrbitHeapElt::new takes over the orientation axis
Maxima(cost_matrix_3d) ==
    [i \in DOMAIN cost_matrix_3d |-> [j \in DOMAIN cost_matrix_3d |->
        ArgMaxLast(cost_matrix_3d[i][j], DOMAIN cost_matrix_3d[i][j])]]

\* OrbitHeapElt::new: the root node of a cost tensor
OrbitHeapElt_new(cost_matrix_3d) ==
    Let(Maxima(cost_matrix_3d), LAMBDA maxima :
    Let([i \in DOMAIN maxima |-> [j \in DOMAIN maxima |->
            Some(cost_matrix_3d[i][j][maxima[i][j]])]], LAMBDA cost_matrix_2d :
    Let([i \in DOMAIN maxima |-> [j \in DOMAIN maxima |-> Some(maxima[i][j])]],
        LAMBDA oris_chosen :
    Let(mk_matching(cost_matrix_2d, oris_chosen).val, LAMBDA r :
        [allowed |-> [i \in DOMAIN maxima |-> [j \in DOMAIN maxima |->
                        [o \in DOMAIN cost_matrix_3d[i][j] |-> TRUE]]],
         cost_matrix_2d |-> cost_matrix_2d,
         oris_chosen |-> oris_chosen,
         log_likelihood |-> r[2],
         matching |-> r[1]]))))

\* BestAllowedOri without the filter on allowed
BestAllowedOri_Unfiltered(row, allowed_row) == Some(ArgMaxLast(row, DOMAIN row))

\* the best orientation still allowed for one cell: Some(ori) or None
BestAllowedOri(row, allowed_row) ==
    Let({ o \in DOMAIN allowed_row : allowed_row[o] }, LAMBDA S :
        IF S = {} THEN None ELSE Some(ArgMaxLast(row, S)))

\* SplitChild clearing the matched orientation of every piece at position i
SplitChild_WholeRow(elt, cost_matrix_3d, i) ==
    Let(elt.matching[i][1], LAMBDA j :
    Let([elt.allowed EXCEPT ![i] = [q \in DOMAIN elt.allowed[i] |->
            [elt.allowed[i][q] EXCEPT ![elt.matching[i][2]] = FALSE]]], LAMBDA allowed :
    Let(BestAllowedOri(cost_matrix_3d[i][j], allowed[i][j]), LAMBDA maybe_ori :
    Let([elt.cost_matrix_2d EXCEPT ![i][j] =
            IF IsSome(maybe_ori) THEN Some(cost_matrix_3d[i][j][Unwrap(maybe_ori)]) ELSE None],
        LAMBDA cost_matrix_2d :
    Let([elt.oris_chosen EXCEPT ![i][j] = maybe_ori], LAMBDA oris_chosen :
    Let(mk_matching(cost_matrix_2d, oris_chosen), LAMBDA r :
        IF r.tag # "Some" THEN r
        ELSE RSome([allowed |-> allowed,
                    cost_matrix_2d |-> cost_matrix_2d,
                    oris_chosen |-> oris_chosen,
                    log_likelihood |-> r.val[2],
                    matching |-> r.val[1]])))))))

\* the closure of split for position i: Some(child), None (dropped) or a panic
SplitChild(elt, cost_matrix_3d, i) ==
    Let(elt.matching[i][1], LAMBDA j :
    Let([elt.allowed EXCEPT ![i][j][elt.matching[i][2]] = FALSE], LAMBDA allowed :
    Let(BestAllowedOri(cost_matrix_3d[i][j], allowed[i][j]), LAMBDA maybe_ori :
    Let([elt.cost_matrix_2d EXCEPT ![i][j] =
            IF IsSome(maybe_ori) THEN Some(cost_matrix_3d[i][j][Unwrap(maybe_ori)]) ELSE None],
        LAMBDA cost_matrix_2d :
    Let([elt.oris_chosen EXCEPT ![i][j] = maybe_ori], LAMBDA oris_chosen :
    Let(mk_matching(cost_matrix_2d, oris_chosen), LAMBDA r :
        IF r.tag # "Some" THEN r
        ELSE RSome([allowed |-> allowed,
                    cost_matrix_2d |-> cost_matrix_2d,
                    oris_chosen |-> oris_chosen,
                    log_likelihood |-> r.val[2],
                    matching |-> r.val[1]])))))))

RECURSIVE SplitFrom(_, _, _)
\* the children for positions i, i+1, ... in order: Some(sequence), or a panic
SplitFrom(elt, cost_matrix_3d, i) ==
    IF i = Size(cost_matrix_3d) THEN RSome(<<>>)
    ELSE Let(SplitChild(elt, cost_matrix_3d, i), LAMBDA c :
             IF c.tag = "Panic" THEN RPanic
             ELSE Let(SplitFrom(elt, cost_matrix_3d, i + 1), LAMBDA rest :
                      IF rest.tag = "Panic" THEN RPanic
                      ELSE IF c.tag = "None" THEN rest
                      ELSE RSome(<<c.val>> \o rest.val)))

\* OrbitHeapElt::split
OrbitHeapElt_split(elt, cost_matrix_3d) == SplitFrom(elt, cost_matrix_3d, 0)

(***************************************************************************)
(* maximum_matching as a process: one action per iteration of its loop     *)
(***************************************************************************)

MaxN == 3
MaxCost == 1

\* the tables of the tests of hungarian_algorithm.rs
T3(a, b, c) == [i \in 0..2 |-> (<<a, b, c>>)[i + 1]]
ExampleTables ==
    { T3(T3(Some(-8), Some(-4), Some(-7)), T3(Some(-6), Some(-2), Some(-3)), T3(Some(-9), Some(-4), Some(-8))),
      T3(T3(None, Some(-4), Some(-7)), T3(Some(-6), Some(-2), Some(-3)), T3(Some(-9), Some(-4), Some(-8))),
      T3(T3(None, Some(-4), Some(-7)), T3(None, Some(-2), Some(-3)), T3(None, Some(-4), Some(-8))),
      T3(T3(Some(100), Some(110), Some(90)), T3(Some(95), Some(130), Some(75)), T3(Some(95), Some(140), Some(65))) }

\* the cost tables maximum_matching is run on: the tables of the tests, and
\* every n x n table, n <= MaxN, whose entries are disallowed or a non-zero
\* cost in -MaxCost..MaxCost (negative and positive costs, mixed freely)
CostEntries == {None} \cup { Some(v) : v \in ((0 - MaxCost)..MaxCost) \ {0} }
CostTables ==
    ExampleTables \cup UNION { [0..(n - 1) -> [0..(n - 1) -> CostEntries]] : n \in 0..MaxN }

\* the other components, not running
HIdle ==
    /\ hCosts = <<>>
    /\ hData = <<>>
    /\ hPc = "idle"
    /\ hResult = RNone
    /\ hSteps = 0

OIdle ==
    /\ oCost = <<>>
    /\ oHeap = EmptyBag
    /\ oCache = None
    /\ oOut = <<>>
    /\ oPc = "idle"
    /\ oSplit = <<>>

PIdle ==
    /\ pStreams = <<>>
    /\ pMembers = {}
    /\ pDrawn = <<>>
    /\ pHeap = EmptyBag
    /\ pCache = None
    /\ pOut = <<>>
    /\ pPc = "idle"
    /\ pResult = None
    /\ pSplit = <<>>

SIdle ==
    /\ sStream = <<>>
    /\ sSaved = <<>>
    /\ sNexts = 0
    /\ sGot = <<>>
    /\ sPc = "idle"

QIdle ==
    /\ qInput = <<>>
    /\ qArr = <<>>
    /\ qLo = 0
    /\ qLen = 0
    /\ qFind = 0
    /\ qK = 0
    /\ qPc = "idle"

IIdle ==
    /\ iAssign = <<>>
    /\ iImageSize = 0
    /\ iPixels = <<>>
    /\ iCals = 0
    /\ iLast = <<>>
    /\ iPc = "idle"

DIdle ==
    /\ dTree = <<>>
    /\ dQuery = <<>>
    /\ dN = 0
    /\ dNn = <<>>
    /\ dPc = "idle"

HInit ==
    /\ hCosts \in CostTables
    /\ hData = <<>>
    /\ hPc = "start"
    /\ hResult = RNone
    /\ hSteps = 0
    /\ OIdle
    /\ PIdle
    /\ SIdle
    /\ QIdle
    /\ IIdle
    /\ DIdle

\* costs.is_empty(): return Some(Vec::new())
HEmpty ==
    /\ hPc = "start"
    /\ Size(hCosts) = 0
    /\ hResult' = RSome(<<>>)
    /\ hPc' = "done"
    /\ UNCHANGED <<hCosts, hData, hSteps, OutsideHungarian>>

\* the maximum over the defined entries is unwrapped: no defined entry panics
HNoDefinedEntry ==
    /\ hPc = "start"
    /\ Size(hCosts) > 0
    /\ DefinedCosts(hCosts) = {}
    /\ hPc' = "panic"
    /\ UNCHANGED <<hCosts, hData, hResult, hSteps, OutsideHungarian>>

\* the potentials are seeded and the main loop is entered
HSeed ==
    /\ hPc = "start"
    /\ Size(hCosts) > 0
    /\ DefinedCosts(hCosts) # {}
    /\ hData' = InitialData(hCosts)
    /\ hPc' = "loop"
    /\ UNCHANGED <<hCosts, hResult, hSteps, OutsideHungarian>>

\* an iteration that finds an augmenting path and toggles it
HAugment ==
    /\ hPc = "loop"
    /\ Unmatched(hData) # {}
    /\ \E r \in {find_augmenting_path(SetMin(Unmatched(hData)), hData, hCosts)} :
        /\ IsSome(r.endpoint)
        /\ hData' = toggle_augmenting_path(Unwrap(r.endpoint), r.data)
    /\ hSteps' = 0
    /\ UNCHANGED <<hCosts, hPc, hResult, OutsideHungarian>>

\* an iteration that finds no path and relaxes the potentials
HRelax ==
    /\ hPc = "loop"
    /\ Unmatched(hData) # {}
    /\ \E r \in {find_augmenting_path(SetMin(Unmatched(hData)), hData, hCosts)} :
       \E x \in {relax_potentials(r.data, hCosts)} :
        /\ ~IsSome(r.endpoint)
        /\ x.ok
        /\ hData' = x.data
    /\ hSteps' = hSteps + 1
    /\ UNCHANGED <<hCosts, hPc, hResult, OutsideHungarian>>

\* an iteration that finds no path and cannot relax: return None
HInfeasible ==
    /\ hPc = "loop"
    /\ Unmatched(hData) # {}
    /\ \E r \in {find_augmenting_path(SetMin(Unmatched(hData)), hData, hCosts)} :
       \E x \in {relax_potentials(r.data, hCosts)} :
        /\ ~IsSome(r.endpoint)
        /\ ~x.ok
        /\ hData' = r.data
    /\ hResult' = RNone
    /\ hPc' = "done"
    /\ UNCHANGED <<hCosts, hSteps, OutsideHungarian>>

\* every left node is matched: return the matching
HFinish ==
    /\ hPc = "loop"
    /\ Unmatched(hData) = {}
    /\ hResult' = RSome(MatchingOf(hData))
    /\ hPc' = "done"
    /\ UNCHANGED <<hCosts, hData, hSteps, OutsideHungarian>>

HNext == HEmpty \/ HNoDefinedEntry \/ HSeed \/ HAugment \/ HRelax \/ HInfeasible \/ HFinish

SpecHungarian == HInit /\ [][HNext]_vars

\* the perfect matchings that use only defined entries, and their values
Perms(n) == { m \in [0..(n - 1) -> 0..(n - 1)] : \A a, b \in 0..(n - 1) : m[a] = m[b] => a = b }
PerfectMatchings(costs) ==
    { m \in Perms(Size(costs)) : \A i \in DOMAIN costs : IsSome(costs[i][m[i]]) }
MatchingValue(costs, m) == SumTo([i \in DOMAIN costs |-> Unwrap(costs[i][m[i]])], Size(costs))
BruteForceOptimum(costs) == SetMax({ MatchingValue(costs, m) : m \in PerfectMatchings(costs) })

\* C4: whenever the table has a perfect matching over defined entries,
\* maximum_matching returns Some(m), m a permutation of the columns using only
\* defined entries whose value is the brute-force optimum.
C4_MatchingOptimal ==
    (hPc \in {"done", "panic"} /\ PerfectMatchings(hCosts) # {}) =>
        /\ hPc = "done"
        /\ hResult.tag = "Some"
        /\ hResult.val \in PerfectMatchings(hCosts)
        /\ MatchingValue(hCosts, hResult.val) = BruteForceOptimum(hCosts)

\* a 3x3 table with a missing entry, costs of both signs and perfect matchings
\* of different totals, solved with a row matched to less than its greatest cost
C4_Witness ==
    /\ hPc = "done"
    /\ Size(hCosts) = 3
    /\ hResult.tag = "Some"
    /\ \E i, j \in DOMAIN hCosts :
          /\ IsSome(hCosts[i][j])
          /\ Unwrap(hCosts[i][j]) > Unwrap(hCosts[i][hResult.val[i]])
    /\ \E i, j \in DOMAIN hCosts : ~IsSome(hCosts[i][j])
    /\ \E i, j \in DOMAIN hCosts : IsSome(hCosts[i][j]) /\ Unwrap(hCosts[i][j]) < 0
    /\ \E i, j \in DOMAIN hCosts : IsSome(hCosts[i][j]) /\ Unwrap(hCosts[i][j]) > 0
    /\ \E m \in PerfectMatchings(hCosts) : MatchingValue(hCosts, m) < BruteForceOptimum(hCosts)

\* the potentials are feasible for every defined edge, and matched edges
\* are tight
DualFeasible ==
    \A i, j \in DOMAIN hData :
        /\ IsSome(hCosts[i][j]) => Slack(hData, hCosts, i, j) >= 0
        /\ hData[i].left.matches_with = Some(j) =>
              IsSome(hCosts[i][j]) /\ Slack(hData, hCosts, i, j) = 0

\* a step of the main loop that relaxed the potentials
RelaxStep == hPc = "loop" /\ hPc' = "loop" /\ hSteps' = hSteps + 1

\* the potentials moved by one delta > 0 on the nodes the BFS visited, and
\* on no other node
RelaxedByOneDelta ==
    \E delta \in 1..(4 * SetMax({1} \cup { IF c < 0 THEN 0 - c ELSE c : c \in DefinedCosts(hCosts) })) :
        \A k \in DOMAIN hData :
            /\ hData'[k].left.potential =
                  hData[k].left.potential - (IF hData'[k].left.visited THEN delta ELSE 0)
            /\ hData'[k].right.potential =
                  hData[k].right.potential + (IF hData'[k].right.visited THEN delta ELSE 0)

\* C33: at every iteration of the main loop of maximum_matching every defined
\* edge (i, j) has left_potential[i] + right_potential[j] >= costs[i][j] and
\* every matched edge is tight; relax_potentials changes the potentials of
\* the nodes the last BFS visited only, lowering the visited left nodes and
\* raising the visited right nodes by the same delta.
C33_DualInvariant == []DualFeasible /\ [][RelaxStep => RelaxedByOneDelta]_vars

\* the loop after a relaxation, with a matched edge, a visited and an
\* unvisited node on each side, and an edge that is not tight
C33_Witness ==
    /\ hPc = "loop"
    /\ hSteps >= 1
    /\ \E i \in DOMAIN hData : IsSome(hData[i].left.matches_with)
    /\ \E i, j \in DOMAIN hData : hData[i].left.visited /\ ~hData[j].left.visited
    /\ \E i, j \in DOMAIN hData : hData[i].right.visited /\ ~hData[j].right.visited
    /\ \E i, j \in DOMAIN hData : IsSome(hCosts[i][j]) /\ Slack(hData, hCosts, i, j) > 0
    /\ \E j \in DOMAIN hData : hData[j].right.potential > 0

\* the matches_with fields of the two sides are inverse to each other, and
\* every matched edge is a defined entry
MatchesInverse ==
    \A i, j \in DOMAIN hData :
        /\ hData[i].left.matches_with = Some(j) <=> hData[j].right.matches_with = Some(i)
        /\ hData[i].left.matches_with = Some(j) => IsSome(hCosts[i][j])

MatchedLeft(data) == (DOMAIN data) \ Unmatched(data)

\* a step of the main loop that toggled an augmenting path
AugmentStep == hPc = "loop" /\ hPc' = "loop" /\ hSteps' = 0

\* C34: at every iteration of the main loop of maximum_matching the left and
\* right matches_with fields are mutually inverse partial injections over
\* defined edges, toggle_augmenting_path increases the number of matched left
\* nodes by exactly one, and no matched left node ever becomes unmatched.
C34_MatchingConsistent ==
    /\ []MatchesInverse
    /\ [][AugmentStep => Cardinality(MatchedLeft(hData')) = Cardinality(MatchedLeft(hData)) + 1]_vars
    /\ [][MatchedLeft(hData) \subseteq MatchedLeft(hData')]_vars

\* every left node matched, one of them to another right node than the one
\* it was first matched with: the last path went through a matched edge
C34_Witness ==
    /\ hPc = "loop"
    /\ Size(hCosts) = 3
    /\ Unmatched(hData) = {}
    /\ \E i \in DOMAIN hData :
          /\ IsSome(hData[i].left.bfs_comes_from)
          /\ hData[i].left.matches_with # hData[i].left.bfs_comes_from

\* maximum_matching is one sequential loop: it keeps taking steps
FairHungarian == SpecHungarian /\ WF_vars(HNext)

VisitedRight(data) == { j \in DOMAIN data : data[j].right.visited }

\* after a relaxation (data still carries the marks of the BFS that failed),
\* the BFS of the next iteration, from the same left node, visits a right
\* node that BFS did not, and gives up none unless it ends at an endpoint
RelaxProgress ==
    (hPc = "loop" /\ hSteps >= 1) =>
        /\ Unmatched(hData) # {}
        /\ hData[SetMin(Unmatched(hData))].left.visited
        /\ ~IsSome(hData[SetMin(Unmatched(hData))].left.bfs_comes_from)
        /\ Let(find_augmenting_path(SetMin(Unmatched(hData)), hData, hCosts), LAMBDA r :
              /\ VisitedRight(r.data) \ VisitedRight(hData) # {}
              /\ ~IsSome(r.endpoint) => VisitedRight(hData) \subseteq VisitedRight(r.data))

\* C35: for every square cost table with at least one defined entry
\* maximum_matching terminates; each successful relax_potentials makes at
\* least one more right node reachable by the next BFS from the same
\* unmatched left node, so at most n relaxations occur between two
\* augmentations or before None is returned.
C35_HungarianTerminates ==
    /\ []RelaxProgress
    /\ [](hSteps <= Size(hCosts))
    /\ (DefinedCosts(hCosts) # {}) => <>(hPc = "done")

\* a 3 x 3 table on which the call returned after two relaxations in a row
C35_Witness ==
    /\ hPc = "done"
    /\ Size(hCosts) = 3
    /\ hSteps >= 2

\* C5 (as claimed): whenever a non-empty table has no perfect matching over
\* defined entries, maximum_matching returns None and does not abort.
C5_InfeasibleReturnsNone ==
    (hPc \in {"done", "panic"} /\ Size(hCosts) > 0 /\ PerfectMatchings(hCosts) = {}) =>
        (hPc = "done" /\ hResult.tag = "None")

\* the table of the matching sanity scenario (the first table of tests::example)
SanityTable ==
    T3(T3(Some(-8), Some(-4), Some(-7)), T3(Some(-6), Some(-2), Some(-3)),
       T3(Some(-9), Some(-4), Some(-8)))

\* the value mk_matching computes for the matching of a table: the sum of the
\* matched costs (every cell with orientation 0)
ValueOf(costs) ==
    mk_matching(costs, [i \in DOMAIN costs |-> [j \in DOMAIN costs |-> Some(0)]]).val[2]

\* maximum_matching has returned on the sanity table
SanityDone == hCosts = SanityTable /\ hPc = "done"

\* C18 (as claimed): on the sanity table maximum_matching returns [0,2,1] and
\* the value of that matching is -13.
C18_SanityScenario ==
    SanityDone => (hResult = RSome(T3(0, 2, 1)) /\ ValueOf(hCosts) = -13)

\* C18 (amended): on the sanity table maximum_matching returns [0,2,1] and the
\* value of that matching is -15 (-8 + -3 + -4).
C18_SanityScenarioAmended ==
    SanityDone =>
       /\ hResult = RSome(T3(0, 2, 1))
       /\ ValueOf(hCosts) = -15
       /\ MatchingValue(hCosts, hResult.val) = -15

\* maximum_matching has returned a matching on the sanity table
C18_Witness == SanityDone /\ hResult.tag = "Some"

\* the function form agrees with the process
HFunctionAgrees ==
    hPc \in {"done", "panic"} =>
        maximum_matching(hCosts) = (IF hPc = "panic" THEN RPanic ELSE hResult)

(***************************************************************************)
(* MatchIter: the per-orbit stream, one action per call of next            *)
(***************************************************************************)

MaxNext == 5

\* the tensor of the heap_elt test: 3 pieces, 2 orientations
Scenario4 ==
    LET T2(a, b) == [o \in 0..1 |-> (<<a, b>>)[o + 1]] IN
    T3(T3(T2(-8, -10), T2(-4, -10), T2(-7, -10)),
       T3(T2(-6, -10), T2(-2, -10), T2(-3, -10)),
       T3(T2(-9, -10), T2(-4, -10), T2(-8, -10)))

\* the entries of the tensors enumerated in full
OrbitCosts == {-1, 0}

\* the shapes <<pieces, orientation_count>> of the orbits enumerated in full
OrbitShapes == {<<1, 1>>, <<1, 2>>, <<2, 1>>, <<2, 2>>}
OrbitTensors ==
    {Scenario4} \cup
    UNION { [0..(sh[1] - 1) -> [0..(sh[1] - 1) -> [0..(sh[2] - 1) -> OrbitCosts]]] :
            sh \in OrbitShapes }

\* StabilizerChain::is_member of the orbit-restricted subgroup is code of the
\* puzzle_theory crate, a function of the permutation alone, which the
\* matching determines; the subgroups tested here: every assignment, the
\* assignments whose orientations sum to 0 modulo the orientation count, and
\* the assignments whose piece permutation is even
OrbitGroups == {"all", "ori_sum", "even"}

Inversions(matching) ==
    Cardinality({ p \in (DOMAIN matching) \X (DOMAIN matching) :
                    p[1] < p[2] /\ matching[p[1]][1] > matching[p[2]][1] })

OrbitIsMember(group, matching, ori_count) ==
    CASE group = "all" -> TRUE
      [] group = "ori_sum" ->
            SumTo([i \in DOMAIN matching |-> matching[i][2]],
                  Cardinality(DOMAIN matching)) % ori_count = 0
      [] group = "even" -> Inversions(matching) % 2 = 0

\* The geometry of the orbit comes from PuzzleGeometry (crate puzzle_theory).
\* Here piece p of an orbit with ori_count orientations owns the stickers
\* 1 + p * ori_count + t for t < ori_count, sticker t having orientation
\* number t; sticker 0 and the last sticker belong to no piece of the orbit.
FaceletCount(pieces, ori_count) == pieces * ori_count + 2

\* orbit.pieces()[p].stickers()
PieceStickers(p, ori_count) == { 1 + p * ori_count + t : t \in 0..(ori_count - 1) }

\* the stickers of the pieces of the orbit
OrbitStickers(pieces, ori_count) ==
    UNION { PieceStickers(p, ori_count) : p \in 0..(pieces - 1) }

\* orientation_numbers()[sticker], for a sticker of the orbit
OriNumOf(sticker, ori_count) == (sticker - 1) % ori_count

\* OriNum + usize wraps around in the orientation count
OriNumAdd(ori_num, ori, ori_count) == (ori_num + ori) % ori_count

\* pieces[is].stickers().iter().find(|v| ori_nums[**v] == target_ori)
FindSticker(is, target_ori, ori_count) ==
    Let({ v \in PieceStickers(is, ori_count) : OriNumOf(v, ori_count) = target_ori },
        LAMBDA found : IF found = {} THEN RPanic ELSE RSome(SetMin(found)))

\* WriteSpot writing one index too far
WriteSpot_OffByOne(mapping, spot, matching, ori_count) ==
    [s \in DOMAIN mapping |->
        IF (s - 1) \in PieceStickers(spot, ori_count)
        THEN FindSticker(matching[spot][1],
                 OriNumAdd(OriNumOf(s - 1, ori_count), matching[spot][2], ori_count),
                 ori_count).val
        ELSE mapping[s]]

\* the inner loop of MatchIter::next: mapping_comes_from[sticker_spot] is set
\* for every sticker_spot of the piece at position spot
WriteSpot(mapping, spot, matching, ori_count) ==
    [s \in DOMAIN mapping |->
        IF s \in PieceStickers(spot, ori_count)
        THEN FindSticker(matching[spot][1],
                 OriNumAdd(OriNumOf(s, ori_count), matching[spot][2], ori_count),
                 ori_count).val
        ELSE mapping[s]]

RECURSIVE ComesFromLoop(_, _, _, _)
\* the outer loop over item.matching from position spot on
ComesFromLoop(mapping, spot, matching, ori_count) ==
    IF spot \notin DOMAIN matching THEN mapping
    ELSE Let(WriteSpot(mapping, spot, matching, ori_count), LAMBDA m :
             ComesFromLoop(m, spot + 1, matching, ori_count))

\* mapping_comes_from as MatchIter::next builds it for the popped node
mapping_comes_from(matching, ori_count) ==
    ComesFromLoop([s \in 0..(FaceletCount(Cardinality(DOMAIN matching), ori_count) - 1) |-> s],
                  0, matching, ori_count)

RECURSIVE SeqToBag(_)
SeqToBag(seq) == IF seq = <<>> THEN EmptyBag ELSE SetToBag({Head(seq)}) (+) SeqToBag(Tail(seq))

\* a heap that pops any of its elements
OrbitHeapMax_Any(heap) == BagToSet(heap)

\* BinaryHeap::pop / peek give a greatest element under Ord for OrbitHeapElt
\* (equal masks are Equal, otherwise log_likelihood decides); which of several
\* greatest elements is not specified
OrbitHeapMax(heap) ==
    { e \in BagToSet(heap) : \A f \in BagToSet(heap) : f.log_likelihood <= e.log_likelihood }

\* the heap once the cached node, if any, has been split into it
OrbitHeapExtended(heap, cache, cost_matrix_3d) ==
    IF ~IsSome(cache) THEN RSome(heap)
    ELSE Let(OrbitHeapElt_split(Unwrap(cache), cost_matrix_3d), LAMBDA sp :
             IF sp.tag = "Panic" THEN RPanic ELSE RSome(heap (+) SeqToBag(sp.val)))

\* how many further elements the loop `while peek().allowed == item.allowed`
\* may pop after `item` was popped, `rest` being the heap left
OrbitDrainCounts(rest, item) ==
    LET copies == { e \in BagToSet(rest) : e.allowed = item.allowed }
        c == IF copies = {} THEN 0 ELSE CopiesIn(item, rest)
        tied == \E e \in BagToSet(rest) :
                    e.allowed # item.allowed /\ e.log_likelihood = item.log_likelihood
    IN IF tied THEN 0..c ELSE {c}

RECURSIVE BagRemove(_, _, _)
\* the bag with n copies of e taken out
BagRemove(bag, e, n) == IF n = 0 THEN bag ELSE BagRemove(bag (-) SetToBag({e}), e, n - 1)

\* the log of splits once cache.take() has handed the cached node to split
SplitLogged(log, cache, out) == IF IsSome(cache) THEN Append(log, Len(out)) ELSE log

OInit ==
    /\ oCost \in OrbitTensors
    /\ oHeap = SetToBag({OrbitHeapElt_new(oCost)})
    /\ oCache = None
    /\ oOut = <<>>
    /\ oPc = "run"
    /\ oSplit = <<>>
    /\ HIdle
    /\ PIdle
    /\ SIdle
    /\ QIdle
    /\ IIdle
    /\ DIdle

\* a next that splits the node it yields at once and caches nothing
ONextYield_Eager ==
    /\ oPc = "run"
    /\ Len(oOut) < MaxNext
    /\ oHeap # EmptyBag
    /\ \E item \in OrbitHeapMax(oHeap) :
       \E rest \in {oHeap (-) SetToBag({item})} :
       \E n \in OrbitDrainCounts(rest, item) :
       \E sp \in {OrbitHeapElt_split(item, oCost)} :
          /\ sp.tag = "Some"
          /\ oHeap' = BagRemove(rest, item, n) (+) SeqToBag(sp.val)
          /\ oCache' = None
          /\ oOut' = Append(oOut,
                [allowed |-> item.allowed,
                 log_likelihood |-> item.log_likelihood,
                 matching |-> item.matching,
                 comes_from |-> mapping_comes_from(item.matching,
                                                   Cardinality(Oris(oCost)))])
          /\ oSplit' = Append(oSplit, Len(oOut) + 1)
    /\ UNCHANGED <<oCost, oPc, OutsideOrbit>>

\* next returns Some: split the cached node, pop, drain equal masks, cache
ONextYield ==
    /\ oPc = "run"
    /\ Len(oOut) < MaxNext
    /\ \E h \in {OrbitHeapExtended(oHeap, oCache, oCost)} :
        /\ h.tag = "Some"
        /\ h.val # EmptyBag
        /\ \E item \in OrbitHeapMax(h.val) :
             \E rest \in {h.val (-) SetToBag({item})} :
             \E n \in OrbitDrainCounts(rest, item) :
                /\ oHeap' = BagRemove(rest, item, n)
                /\ oCache' = Some(item)
                /\ oOut' = Append(oOut,
                      [allowed |-> item.allowed,
                       log_likelihood |-> item.log_likelihood,
                       matching |-> item.matching,
                       comes_from |-> mapping_comes_from(item.matching,
                                                         Cardinality(Oris(oCost)))])
    /\ oSplit' = SplitLogged(oSplit, oCache, oOut)
    /\ UNCHANGED <<oCost, oPc, OutsideOrbit>>

\* next returns None: the heap is empty after the split
ONextNone ==
    /\ oPc = "run"
    /\ \E h \in {OrbitHeapExtended(oHeap, oCache, oCost)} :
        /\ h.tag = "Some"
        /\ h.val = EmptyBag
    /\ oHeap' = EmptyBag
    /\ oCache' = None
    /\ oPc' = "ended"
    /\ oSplit' = SplitLogged(oSplit, oCache, oOut)
    /\ UNCHANGED <<oCost, oOut, OutsideOrbit>>

\* next panics inside split: maximum_matching on a table with no defined entry
ONextPanic ==
    /\ oPc = "run"
    /\ OrbitHeapExtended(oHeap, oCache, oCost).tag = "Panic"
    /\ oCache' = None
    /\ oPc' = "panic"
    /\ oSplit' = SplitLogged(oSplit, oCache, oOut)
    /\ UNCHANGED <<oCost, oHeap, oOut, OutsideOrbit>>

ONext == ONextYield \/ ONextNone \/ ONextPanic

SpecOrbit == OInit /\ [][ONext]_vars

\* most_likely_matchings: the outputs of MatchIter that pass
\* .filter(|(perm, _)| self.stab_chain.is_member(perm)), for a given subgroup
Filtered(out, group, ori_count) ==
    SelectSeq(out, LAMBDA e : OrbitIsMember(group, e.matching, ori_count))

NonIncreasing(out) ==
    \A a, b \in DOMAIN out : a < b => out[b].log_likelihood <= out[a].log_likelihood

\* C6: the log-likelihoods of successive outputs of the per-orbit stream are
\* non-increasing, before and after the orbit membership filter.
C6_OrbitDescending ==
    /\ NonIncreasing(oOut)
    /\ \A g \in OrbitGroups : NonIncreasing(Filtered(oOut, g, Cardinality(Oris(oCost))))

\* three or more nodes yielded, the last strictly less likely than the first,
\* and a membership test that drops one of them and keeps two
C6_Witness ==
    /\ Len(oOut) >= 3
    /\ oOut[Len(oOut)].log_likelihood < oOut[1].log_likelihood
    /\ \E g \in OrbitGroups :
          /\ Len(Filtered(oOut, g, Cardinality(Oris(oCost)))) >= 2
          /\ Len(Filtered(oOut, g, Cardinality(Oris(oCost)))) < Len(oOut)

\* C9 (as claimed): no two nodes the per-orbit stream yields have identical
\* allowed masks.
C9_NoDuplicateMasks ==
    \A a, b \in DOMAIN oOut : a # b => oOut[a].allowed # oOut[b].allowed

\* C12: every permutation an orbit stream emits sends every sticker outside
\* the orbit to itself; only entries at stickers of the orbit's pieces are
\* written.
C12_OrbitRestriction ==
    \A k \in DOMAIN oOut :
       \A s \in DOMAIN oOut[k].comes_from :
          s \notin OrbitStickers(Size(oCost), Cardinality(Oris(oCost))) =>
             oOut[k].comes_from[s] = s

\* a node was yielded whose mapping moves a sticker of the orbit, for an orbit
\* of two pieces with two orientations
C12_Witness ==
    /\ Size(oCost) = 2
    /\ Cardinality(Oris(oCost)) = 2
    /\ \E k \in DOMAIN oOut : \E s \in DOMAIN oOut[k].comes_from :
          oOut[k].comes_from[s] # s

\* the pieces of a node's matching, as maximum_matching returns them
PiecesOf(matching) == [i \in DOMAIN matching |-> matching[i][1]]

\* the node MatchIter starts from, while nothing has been yielded
IsRootState == oPc = "run" /\ oOut = <<>>

\* C16: the root node has allowed all true, cost_2d the maximum of cost_3d
\* over the orientations, oris_chosen an orientation attaining it, matching a
\* maximum-weight perfect matching on cost_2d paired with the chosen
\* orientations, and log_likelihood its sum; for scenario 4: -15, orientations
\* all zero, matching [(0,0),(2,0),(1,0)].
C16_RootNode ==
    IsRootState => \A root \in BagToSet(oHeap) :
       /\ \A i, j \in DOMAIN oCost : \A o \in Oris(oCost) : root.allowed[i][j][o]
       /\ \A i, j \in DOMAIN oCost :
             /\ Unwrap(root.cost_matrix_2d[i][j]) = SetMax({ oCost[i][j][o] : o \in Oris(oCost) })
             /\ Unwrap(root.oris_chosen[i][j]) \in Oris(oCost)
             /\ oCost[i][j][Unwrap(root.oris_chosen[i][j])] = Unwrap(root.cost_matrix_2d[i][j])
       /\ PiecesOf(root.matching) \in PerfectMatchings(root.cost_matrix_2d)
       /\ MatchingValue(root.cost_matrix_2d, PiecesOf(root.matching))
             = BruteForceOptimum(root.cost_matrix_2d)
       /\ \A i \in DOMAIN oCost :
             root.matching[i][2] = Unwrap(root.oris_chosen[i][root.matching[i][1]])
       /\ root.log_likelihood = MatchingValue(root.cost_matrix_2d, PiecesOf(root.matching))
       /\ oCost = Scenario4 =>
             /\ root.log_likelihood = -15
             /\ \A i, j \in DOMAIN oCost : root.oris_chosen[i][j] = Some(0)
             /\ root.matching = T3(<<0, 0>>, <<2, 0>>, <<1, 0>>)

\* the root of a 2x2x2 tensor in which some cell prefers orientation 1 and the
\* best matching is not the identity
C16_Witness ==
    /\ IsRootState
    /\ Size(oCost) = 2
    /\ \E root \in BagToSet(oHeap) :
          /\ \E i, j \in DOMAIN oCost : root.oris_chosen[i][j] = Some(1)
          /\ root.matching[0][1] = 1
          /\ root.log_likelihood = 0

\* child is what split makes of parent for position i: the mask with the one
\* entry [i, piece_i, ori_i] cleared, the tables changed at [i, piece_i] only
IsChildAt(child, parent, i) ==
    LET j == parent.matching[i][1]
        ori == parent.matching[i][2]
    IN /\ parent.allowed[i][j][ori]
       /\ child.allowed = [parent.allowed EXCEPT ![i][j][ori] = FALSE]
       /\ \A a, b \in DOMAIN parent.cost_matrix_2d : <<a, b>> # <<i, j>> =>
             /\ child.cost_matrix_2d[a][b] = parent.cost_matrix_2d[a][b]
             /\ child.oris_chosen[a][b] = parent.oris_chosen[a][b]

\* the positions at which child is a child of parent
ChildPositions(child, parent) ==
    { i \in DOMAIN parent.matching : IsChildAt(child, parent, i) }

\* C17: split yields at most n children in position order; the child for
\* position i has the parent's mask with exactly [i, piece_i, ori_i] cleared
\* and the parent's cost_2d and oris_chosen outside the cell [i, piece_i];
\* the root of scenario 4 has three children, of log-likelihoods -16, -17, -16.
C17_SplitEffect ==
    IsSome(oCache) =>
       Let(OrbitHeapElt_split(Unwrap(oCache), oCost), LAMBDA sp :
           sp.tag = "Some" =>
              /\ Len(sp.val) <= Size(oCost)
              /\ \A x \in DOMAIN sp.val :
                    Cardinality(ChildPositions(sp.val[x], Unwrap(oCache))) = 1
              /\ \A x, y \in DOMAIN sp.val : x < y =>
                    \A i \in ChildPositions(sp.val[x], Unwrap(oCache)) :
                    \A k \in ChildPositions(sp.val[y], Unwrap(oCache)) : i < k
              /\ (oCost = Scenario4 /\ Len(oOut) = 1) =>
                    [x \in DOMAIN sp.val |-> sp.val[x].log_likelihood] = <<-16, -17, -16>>)

\* the root of scenario 4 has been split and its first child yielded, the two
\* other children waiting in the heap
C17_Witness ==
    /\ oCost = Scenario4
    /\ oSplit = <<1>>
    /\ Len(oOut) = 2
    /\ oOut[2].log_likelihood = -16
    /\ { e.log_likelihood : e \in BagToSet(oHeap) } = {-16, -17}

\* the 2-D cost table split builds for the child of position i
ChildCostMatrix(elt, cost_matrix_3d, i) ==
    Let(elt.matching[i][1], LAMBDA j :
    Let(BestAllowedOri(cost_matrix_3d[i][j],
                       [elt.allowed[i][j] EXCEPT ![elt.matching[i][2]] = FALSE]),
        LAMBDA maybe_ori :
        [elt.cost_matrix_2d EXCEPT ![i][j] =
            IF IsSome(maybe_ori) THEN Some(cost_matrix_3d[i][j][Unwrap(maybe_ori)])
            ELSE None]))

\* the positions of a node whose child has a perfect matching
FeasiblePositions(elt, cost_matrix_3d) ==
    { i \in DOMAIN cost_matrix_3d :
        PerfectMatchings(ChildCostMatrix(elt, cost_matrix_3d, i)) # {} }

\* C13 (as claimed): splitting any yielded node never aborts; the children
\* whose cost table has no perfect matching are omitted and the others are
\* all produced, single-piece orbits included.
C13_InfeasibleChildrenDropped ==
    /\ oPc # "panic"
    /\ IsSome(oCache) =>
          Let(OrbitHeapElt_split(Unwrap(oCache), oCost), LAMBDA sp :
              /\ sp.tag = "Some"
              /\ Len(sp.val) = Cardinality(FeasiblePositions(Unwrap(oCache), oCost)))

\* the assignments of the orbit: every position gets a piece and an
\* orientation, the pieces forming a permutation
Assignments(cost_matrix_3d) ==
    { a \in [DOMAIN cost_matrix_3d -> (DOMAIN cost_matrix_3d) \X Oris(cost_matrix_3d)] :
        \A x, y \in DOMAIN cost_matrix_3d : a[x][1] = a[y][1] => x = y }

\* the assignments a node's allowed mask admits
Admitted(allowed, cost_matrix_3d) ==
    { a \in Assignments(cost_matrix_3d) :
        \A i \in DOMAIN cost_matrix_3d : allowed[i][a[i][1]][a[i][2]] }

\* C11 (as claimed): the children of the node about to be split admit
\* pairwise disjoint sets of assignments, and the unfiltered stream yields no
\* assignment (same matching, same orientations) more than once.
C11_MurtyPartition ==
    /\ IsSome(oCache) =>
          Let(OrbitHeapElt_split(Unwrap(oCache), oCost), LAMBDA sp :
              sp.tag = "Some" =>
                 \A x, y \in DOMAIN sp.val : x < y =>
                    Admitted(sp.val[x].allowed, oCost)
                        \cap Admitted(sp.val[y].allowed, oCost) = {})
    /\ \A a, b \in DOMAIN oOut : a # b => oOut[a].matching # oOut[b].matching

\* the nodes at hand: those on the heap, the cached one, and the children
\* the next call of next pushes
OrbitNodes ==
    IF ~IsSome(oCache) THEN BagToSet(oHeap)
    ELSE Let(OrbitHeapElt_split(Unwrap(oCache), oCost), LAMBDA sp :
             BagToSet(oHeap) \cup {Unwrap(oCache)}
             \cup (IF sp.tag = "Some" THEN { sp.val[k] : k \in DOMAIN sp.val } ELSE {}))

\* the orientations of cell (i, j) a node still allows
AllowedOris(elt, i, j) == { o \in DOMAIN elt.allowed[i][j] : elt.allowed[i][j][o] }

\* cost_matrix_2d and oris_chosen of a node agree with its allowed mask
NodeConsistent(elt, cost_matrix_3d) ==
    \A i, j \in DOMAIN cost_matrix_3d :
       IF AllowedOris(elt, i, j) = {}
       THEN elt.cost_matrix_2d[i][j] = None /\ elt.oris_chosen[i][j] = None
       ELSE /\ elt.cost_matrix_2d[i][j] =
                  Some(SetMax({ cost_matrix_3d[i][j][o] : o \in AllowedOris(elt, i, j) }))
            /\ IsSome(elt.oris_chosen[i][j])
            /\ Unwrap(elt.oris_chosen[i][j]) \in AllowedOris(elt, i, j)
            /\ Some(cost_matrix_3d[i][j][Unwrap(elt.oris_chosen[i][j])])
                  = elt.cost_matrix_2d[i][j]

\* C28: for every node reachable from the root by splits, cost_2d[i,j] is
\* the maximum of cost_3d[i,j,o] over the allowed orientations o and is empty
\* exactly when no orientation is allowed, and oris_chosen[i,j] is empty
\* exactly when cost_2d[i,j] is empty and otherwise names an allowed
\* orientation attaining that maximum.
C28_NodeConsistency ==
    \A elt \in OrbitNodes : NodeConsistent(elt, oCost)

\* a node with a cell that has lost every orientation and another cell that
\* has lost one orientation and kept one
C28_Witness ==
    \E elt \in OrbitNodes : \E i, j, k, l \in DOMAIN oCost :
       /\ AllowedOris(elt, i, j) = {}
       /\ AllowedOris(elt, k, l) # {}
       /\ AllowedOris(elt, k, l) # Oris(oCost)
       /\ NodeConsistent(elt, oCost)

\* the matching of a node is a perfect matching of its allowed cells with
\* the chosen orientations, and log_likelihood is its value, the greatest
\* any perfect matching of the defined cells of cost_matrix_2d has
NodeMatchingValid(elt, cost_matrix_3d) ==
    /\ DOMAIN elt.matching = DOMAIN cost_matrix_3d
    /\ { elt.matching[i][1] : i \in DOMAIN cost_matrix_3d } = DOMAIN cost_matrix_3d
    /\ \A i \in DOMAIN cost_matrix_3d :
          /\ elt.allowed[i][elt.matching[i][1]][elt.matching[i][2]]
          /\ elt.oris_chosen[i][elt.matching[i][1]] = Some(elt.matching[i][2])
          /\ IsSome(elt.cost_matrix_2d[i][elt.matching[i][1]])
    /\ elt.log_likelihood = MatchingValue(elt.cost_matrix_2d, PiecesOf(elt.matching))
    /\ elt.log_likelihood = BruteForceOptimum(elt.cost_matrix_2d)

\* C29: for every node reachable from the root by splits, the matching
\* assigns the positions to a permutation of the pieces, every matched tuple
\* (i, piece, ori) is allowed with ori = oris_chosen[i, piece], and
\* log_likelihood is the sum of cost_2d[i, matching[i].piece], the maximum
\* such sum over the perfect matchings of the node's defined cost_2d cells.
C29_NodeMatchingValid ==
    \A elt \in OrbitNodes : NodeMatchingValid(elt, oCost)

\* a node below the root whose matching is not the root's, with a cell of
\* its cost table empty and a value below the root's
C29_Witness ==
    \E elt \in OrbitNodes :
       /\ PiecesOf(elt.matching) # PiecesOf(OrbitHeapElt_new(oCost).matching)
       /\ elt.log_likelihood < OrbitHeapElt_new(oCost).log_likelihood
       /\ \E i, j \in DOMAIN oCost : elt.cost_matrix_2d[i][j] = None
       /\ Cardinality(PerfectMatchings(elt.cost_matrix_2d)) >= 2
       /\ NodeMatchingValid(elt, oCost)

\* the total cost of an assignment
AssignmentCost(a, cost_matrix_3d) ==
    SumTo([i \in DOMAIN cost_matrix_3d |-> cost_matrix_3d[i][a[i][1]][a[i][2]]],
          Size(cost_matrix_3d))

\* the assignments yielded before output k
YieldedUpTo(k) == { oOut[n].matching : n \in 1..(k - 1) }

\* every assignment not yet yielded is still admitted by a node at hand
NothingLost ==
    oPc # "panic" =>
        \A a \in Assignments(oCost) \ YieldedUpTo(Len(oOut) + 1) :
            \E elt \in OrbitNodes :
               /\ a \in Admitted(elt.allowed, oCost)
               /\ IsSome(oCache) => (elt # Unwrap(oCache) \/ elt \in BagToSet(oHeap))

\* C30: every assignment of positions to a permutation of pieces with one
\* orientation per position is yielded by the unfiltered orbit stream
\* before it returns None, and is yielded no later than any assignment of
\* strictly lower total cost.
C30_OrbitComplete ==
    /\ oPc \in {"ended", "panic"} =>
          Assignments(oCost) \subseteq YieldedUpTo(Len(oOut) + 1)
    /\ NothingLost
    /\ \A k \in DOMAIN oOut : \A a \in Assignments(oCost) :
          AssignmentCost(a, oCost) > AssignmentCost(oOut[k].matching, oCost)
              => a \in YieldedUpTo(k)

\* the stream of an orbit with several assignments of different costs has
\* returned None after yielding every one of them, the likeliest first
C30_Witness ==
    /\ oPc = "ended"
    /\ Cardinality(Assignments(oCost)) >= 2
    /\ Assignments(oCost) \subseteq YieldedUpTo(Len(oOut) + 1)
    /\ oOut[Len(oOut)].log_likelihood < oOut[1].log_likelihood

\* next is called again and again
FairOrbit == SpecOrbit /\ WF_vars(ONext)

\* the number of false entries of an allowed mask
FalseCount(allowed) ==
    Cardinality({ c \in (DOMAIN allowed) \X (DOMAIN allowed) \X (DOMAIN allowed[0][0]) :
                    ~allowed[c[1]][c[2]][c[3]] })

\* every child of the node about to be split has more false entries than it
MasksGrow ==
    IsSome(oCache) =>
        Let(OrbitHeapElt_split(Unwrap(oCache), oCost), LAMBDA sp :
            sp.tag = "Some" =>
                \A k \in DOMAIN sp.val :
                    FalseCount(sp.val[k].allowed) > FalseCount(Unwrap(oCache).allowed))

\* C31 (as claimed): every child node has strictly more false entries in its
\* allowed mask than its parent, and for every cost tensor MatchIter::next,
\* called repeatedly, eventually returns None (here: unless MaxNext nodes
\* have been yielded first).
C31_OrbitTerminates ==
    /\ []MasksGrow
    /\ <>(oPc = "ended" \/ Len(oOut) = MaxNext)

(***************************************************************************)
(* puzzle_matching/mod.rs: SavedIter, PuzzleHeapElt, PuzzleIter and        *)
(* Matcher::most_likely, one action per call of PuzzleIter::next           *)
(***************************************************************************)

\* Permutation::from_cycles: the permutation as the set of pairs <<a, b>>
\* with a going to b, fixed points left out
from_cycles(cycles) ==
    UNION { { <<cycles[n][i], cycles[n][(i % Len(cycles[n])) + 1]>> : i \in 1..Len(cycles[n]) } :
            n \in { m \in DOMAIN cycles : Len(cycles[m]) > 1 } }

RECURSIVE Concat(_)
\* flat_map over the cycles of the per-orbit permutations
Concat(seqs) == IF seqs = <<>> THEN <<>> ELSE Head(seqs) \o Concat(Tail(seqs))

RECURSIVE SumSeq(_)
SumSeq(seq) == IF seq = <<>> THEN 0 ELSE Head(seq) + SumSeq(Tail(seq))

\* SavedIter::get(i) on one stream: panics (the unwrap of iter.next()) when
\* the stream has no element i, else materializes elements 0..=i
SavedGetPanics(stream, i) == i >= Len(stream)
\* SavedAfterGet for a get that draws one element past the one asked for
SavedAfterGet_OneAhead(drawn, i) == Max2(drawn, i + 2)
SavedAfterGet(drawn, i) == Max2(drawn, i + 1)

\* PuzzleHeapElt::new: the element for an index vector, or a panic of get
PuzzleHeapElt_new(idxs, streams) ==
    IF \E j \in DOMAIN idxs : SavedGetPanics(streams[j], idxs[j]) THEN RPanic
    ELSE RSome([idxs |-> idxs,
                log_likelihood |-> SumSeq([j \in DOMAIN idxs |-> streams[j][idxs[j] + 1].ll])])

RECURSIVE PuzzleSplitFrom(_, _, _)
\* the neighbour vectors for positions i, i+1, ...: Some(sequence), or a panic
PuzzleSplitFrom(elt, streams, i) ==
    IF i > Len(elt.idxs) THEN RSome(<<>>)
    ELSE Let(PuzzleHeapElt_new([elt.idxs EXCEPT ![i] = @ + 1], streams), LAMBDA c :
             IF c.tag = "Panic" THEN RPanic
             ELSE Let(PuzzleSplitFrom(elt, streams, i + 1), LAMBDA rest :
                      IF rest.tag = "Panic" THEN RPanic
                      ELSE RSome(<<c.val>> \o rest.val)))

\* PuzzleHeapElt::split
PuzzleHeapElt_split(elt, streams) == PuzzleSplitFrom(elt, streams, 1)

\* a heap that pops any of its elements
PuzzleHeapMax_Any(heap) == BagToSet(heap)

\* BinaryHeap::pop / peek give a greatest element under Ord for PuzzleHeapElt
\* (log_likelihood alone); which of several greatest elements is not specified
PuzzleHeapMax(heap) ==
    { e \in BagToSet(heap) : \A f \in BagToSet(heap) : f.log_likelihood <= e.log_likelihood }

\* how many further elements the loop `while peek().idxs == item.idxs` may
\* pop after `item` was popped, `rest` being the heap left
PuzzleDrainCounts(rest, item) ==
    LET c == IF item \in BagToSet(rest) THEN CopiesIn(item, rest) ELSE 0
        tied == \E e \in BagToSet(rest) :
                    e.idxs # item.idxs /\ e.log_likelihood = item.log_likelihood
    IN IF tied THEN 0..c ELSE {c}

\* saved.len() of every stream after the elements named by the vectors of
\* `elts` have been fetched
DrawnAfter(drawn, elts) ==
    [j \in DOMAIN drawn |->
        SetMax({drawn[j]} \cup { SavedAfterGet(drawn[j], elts[n].idxs[j]) : n \in DOMAIN elts })]

\* PuzzleCompose taking the cycles of the first orbit alone
PuzzleCompose_FirstOrbit(item, streams) ==
    [idxs |-> item.idxs,
     log_likelihood |-> SumSeq([j \in DOMAIN item.idxs |-> streams[j][item.idxs[j] + 1].ll]),
     perm |-> from_cycles(IF item.idxs = <<>> THEN <<>>
                          ELSE streams[1][item.idxs[1] + 1].perm)]

\* the item PuzzleIter::next builds from the popped vector
PuzzleCompose(item, streams) ==
    [idxs |-> item.idxs,
     log_likelihood |-> SumSeq([j \in DOMAIN item.idxs |-> streams[j][item.idxs[j] + 1].ll]),
     perm |-> from_cycles(Concat([j \in DOMAIN item.idxs |-> streams[j][item.idxs[j] + 1].perm]))]

\* a find whose predicate accepts every candidate
MostLikelyAccepts_Any(perm, members) == TRUE

\* the predicate of `states.find(...)` in most_likely
MostLikelyAccepts(perm, members) == perm \in members

MaxLen == 3

\* the log-likelihoods of the streams enumerated in full
PuzzleLLs == {-2, -1, 0}

\* the cycles of element i of orbit j's stream: the orbit's stickers are
\* 10j, 10j+1, 10j+2 and successive elements are distinct permutations of them
OrbitCycles(j, i) ==
    LET a == 10 * j
        b == 10 * j + 1
        c == 10 * j + 2
    IN CASE i = 0 -> << <<a, b>> >>
         [] i = 1 -> << <<b, c>> >>
         [] i = 2 -> << <<a, c>> >>
         [] i = 3 -> << <<a, b, c>> >>
         [] i = 4 -> << <<a, c, b>> >>
         [] OTHER -> << >>

\* a stream of orbit j with the given log-likelihoods
StreamOf(j, lls) == [i \in DOMAIN lls |-> [perm |-> OrbitCycles(j, i - 1), ll |-> lls[i]]]

\* the finite streams in descending order (what an orbit stream is, see C6)
DescendingLLs ==
    UNION { { f \in [1..n -> PuzzleLLs] : \A a, b \in 1..n : a < b => f[b] <= f[a] } :
            n \in 0..MaxLen }

\* the streams of the puzzle_iter test
PuzzleIterTest == << StreamOf(0, <<-1, -3, -100>>), StreamOf(1, <<-2, -5, -100>>) >>

\* zero, one or two orbits
StreamConfigs ==
    {<<>>, PuzzleIterTest}
    \cup { <<StreamOf(0, f)>> : f \in DescendingLLs }
    \cup { <<StreamOf(0, f), StreamOf(1, g)>> : f \in DescendingLLs, g \in DescendingLLs }

\* every whole-puzzle candidate: one element of each stream, composed
IndexVectors(streams) ==
    { v \in [DOMAIN streams -> 0..MaxLen] : \A j \in DOMAIN streams : v[j] < Len(streams[j]) }
CandidateOf(v, streams) == PuzzleCompose([idxs |-> v], streams)
Candidates(streams) == { CandidateOf(v, streams) : v \in IndexVectors(streams) }

\* StabilizerChain::is_member of the full group is code of the puzzle_theory
\* crate: here any set of at most two of the candidates' permutations
MemberSets(streams) ==
    LET P == { c.perm : c \in Candidates(streams) }
    IN {{}} \cup { {a, b} : a \in P, b \in P }

PInit ==
    /\ pStreams \in StreamConfigs
    /\ pMembers \in MemberSets(pStreams)
    /\ pDrawn = [j \in DOMAIN pStreams |-> 0]
    /\ pHeap = EmptyBag
    /\ pCache = None
    /\ pOut = <<>>
    /\ pPc = "new"
    /\ pResult = None
    /\ pSplit = <<>>
    /\ HIdle
    /\ OIdle
    /\ SIdle
    /\ QIdle
    /\ IIdle
    /\ DIdle

\* the vector PuzzleIter::new starts from
ZeroIdxs(streams) == [j \in DOMAIN streams |-> 0]

\* PuzzleIter::new: push the vector (0, ..., 0)
PNew ==
    /\ pPc = "new"
    /\ \E r \in {PuzzleHeapElt_new(ZeroIdxs(pStreams), pStreams)} :
        /\ r.tag = "Some"
        /\ pHeap' = SetToBag({r.val})
        /\ pDrawn' = DrawnAfter(pDrawn, <<r.val>>)
    /\ pPc' = "iter"
    /\ UNCHANGED <<pStreams, pMembers, pCache, pOut, pResult, pSplit, OutsidePuzzle>>

\* PuzzleIter::new panics: some stream has no element 0
PNewPanic ==
    /\ pPc = "new"
    /\ PuzzleHeapElt_new(ZeroIdxs(pStreams), pStreams).tag = "Panic"
    /\ pPc' = "panic"
    /\ UNCHANGED <<pStreams, pMembers, pDrawn, pHeap, pCache, pOut, pResult, pSplit, OutsidePuzzle>>

\* next returns Some(candidate): split the cached vector, pop, drain equal
\* vectors, compose, cache.  `accept` is what find's predicate says of it.
PNextSome(accept) ==
    /\ pPc = "iter"
    /\ \E sp \in {IF IsSome(pCache) THEN PuzzleHeapElt_split(Unwrap(pCache), pStreams)
                  ELSE RSome(<<>>)} :
        /\ sp.tag = "Some"
        /\ \E h \in {pHeap (+) SeqToBag(sp.val)} :
            /\ h # EmptyBag
            /\ \E item \in PuzzleHeapMax(h) :
               \E rest \in {h (-) SetToBag({item})} :
               \E n \in PuzzleDrainCounts(rest, item) :
               \E out \in {PuzzleCompose(item, pStreams)} :
                  /\ MostLikelyAccepts(out.perm, pMembers) = accept
                  /\ pHeap' = BagRemove(rest, item, n)
                  /\ pCache' = Some(item)
                  /\ pOut' = Append(pOut, out)
                  /\ pDrawn' = DrawnAfter(pDrawn, sp.val)
                  /\ pResult' = IF accept THEN Some(<<out.perm, out.log_likelihood>>) ELSE pResult
                  /\ pPc' = IF accept THEN "returned" ELSE "iter"
    /\ pSplit' = SplitLogged(pSplit, pCache, pOut)
    /\ UNCHANGED <<pStreams, pMembers, OutsidePuzzle>>

\* find takes the candidate: most_likely returns it
PNextFound == PNextSome(TRUE)

\* find rejects the candidate and calls next again
PNextRejected == PNextSome(FALSE)

\* next returns None (the heap is empty after the split): find gives None
\* and most_likely's unwrap panics
PNextNone ==
    /\ pPc = "iter"
    /\ \E sp \in {IF IsSome(pCache) THEN PuzzleHeapElt_split(Unwrap(pCache), pStreams)
                  ELSE RSome(<<>>)} :
        /\ sp.tag = "Some"
        /\ pHeap (+) SeqToBag(sp.val) = EmptyBag
    /\ pHeap' = EmptyBag
    /\ pCache' = None
    /\ pPc' = "exhausted"
    /\ pSplit' = SplitLogged(pSplit, pCache, pOut)
    /\ UNCHANGED <<pStreams, pMembers, pDrawn, pOut, pResult, OutsidePuzzle>>

\* next panics inside split: SavedIter::get unwraps the end of a stream
PNextPanic ==
    /\ pPc = "iter"
    /\ IsSome(pCache)
    /\ PuzzleHeapElt_split(Unwrap(pCache), pStreams).tag = "Panic"
    /\ pCache' = None
    /\ pPc' = "panic"
    /\ pSplit' = SplitLogged(pSplit, pCache, pOut)
    /\ UNCHANGED <<pStreams, pMembers, pDrawn, pHeap, pOut, pResult, OutsidePuzzle>>

PNext == PNew \/ PNewPanic \/ PNextFound \/ PNextRejected \/ PNextNone \/ PNextPanic

SpecPuzzle == PInit /\ [][PNext]_vars

\* the candidates of the Cartesian product that is_member accepts
MemberCandidates == { c \in Candidates(pStreams) : c.perm \in pMembers }

\* most_likely aborted: a panic inside PuzzleIter, or the unwrap of find's None
MostLikelyAborted == pPc \in {"panic", "exhausted"}

\* C1 (as claimed): whenever some candidate of the Cartesian product is a
\* member, most_likely returns (it does not abort), and what it returns is at
\* least as likely as every member candidate.
C1_ReturnsMostLikelyMember ==
    MemberCandidates # {} =>
        /\ ~MostLikelyAborted
        /\ pPc = "returned" =>
             \A c \in MemberCandidates : c.log_likelihood <= Unwrap(pResult)[2]

\* C2: every permutation most_likely returns satisfies is_member of the full
\* group.
C2_ReturnedIsMember ==
    pPc = "returned" => (IsSome(pResult) /\ Unwrap(pResult)[1] \in pMembers)

\* most_likely returned a member after find rejected a first candidate
C2_Witness ==
    /\ pPc = "returned"
    /\ Len(pOut) >= 2
    /\ pOut[1].perm \notin pMembers
    /\ Unwrap(pResult)[1] = pOut[Len(pOut)].perm
    /\ Unwrap(pResult)[1] \in pMembers

\* C3 (as claimed): with non-empty finite streams none of whose candidates is
\* a member, the stream ends with None and the matcher does not abort.
C3_ExhaustionIsGraceful ==
    (MemberCandidates = {} /\ \A j \in DOMAIN pStreams : Len(pStreams[j]) > 0) =>
        ~MostLikelyAborted

\* C7: the log-likelihoods of successive outputs of PuzzleIter::next are
\* non-increasing (the orbit streams being non-increasing).
C7_PuzzleDescending == NonIncreasing(pOut)

\* two orbits, three or more vectors yielded, and a strict decrease among them
C7_Witness ==
    /\ Len(pStreams) = 2
    /\ Len(pOut) >= 3
    /\ pOut[Len(pOut)].log_likelihood < pOut[1].log_likelihood

\* the index vectors yielded before output n
YieldedBefore(n) == { pOut[m].idxs : m \in 1..(n - 1) }

\* the expected first outputs of the puzzle_iter test
PuzzleIterTestOutputs ==
    << [idxs |-> <<0, 0>>, log_likelihood |-> -3], [idxs |-> <<1, 0>>, log_likelihood |-> -5],
       [idxs |-> <<0, 1>>, log_likelihood |-> -6], [idxs |-> <<1, 1>>, log_likelihood |-> -8] >>

\* C8 (as claimed): the n-th output is an index vector not yielded before
\* whose summed log-likelihood is the greatest among the vectors of the
\* Cartesian product not yielded before it; on the streams of the puzzle_iter
\* test the first four outputs are (0,0), (1,0), (0,1), (1,1) with sums
\* -3, -5, -6, -8.
C8_KBestMerge ==
    /\ \A n \in DOMAIN pOut :
         /\ pOut[n].idxs \in IndexVectors(pStreams) \ YieldedBefore(n)
         /\ \A v \in IndexVectors(pStreams) \ YieldedBefore(n) :
              CandidateOf(v, pStreams).log_likelihood <= pOut[n].log_likelihood
    /\ pStreams = PuzzleIterTest =>
         \A n \in DOMAIN pOut : n <= 4 =>
              /\ pOut[n].idxs = PuzzleIterTestOutputs[n].idxs
              /\ pOut[n].log_likelihood = PuzzleIterTestOutputs[n].log_likelihood

\* C10 (as claimed): no index vector is yielded twice.
C10_NoDuplicateVectors ==
    \A a, b \in DOMAIN pOut : a # b => pOut[a].idxs # pOut[b].idxs

(***************************************************************************)
(* SavedIter on its own: one action per call of get                        *)
(***************************************************************************)

MaxGets == 3

\* the stream of the saved_iter test, by its log-likelihoods
SavedIterTest == StreamOf(0, <<1, 2, 3>>)

\* the underlying iterators: every stream of at most MaxLen items
SavedStreams ==
    {SavedIterTest} \cup
    { StreamOf(0, f) : f \in UNION { [1..n -> PuzzleLLs] : n \in 0..MaxLen } }

RECURSIVE SavedFill_AlwaysPull(_, _, _, _)
\* a get that takes an item from the iterator whether or not it is needed
SavedFill_AlwaysPull(saved, nexts, stream, i) ==
    IF nexts >= Len(stream) THEN RPanic
    ELSE IF Len(saved) >= i THEN RSome([saved |-> Append(saved, stream[nexts + 1]),
                                        nexts |-> nexts + 1])
    ELSE SavedFill_AlwaysPull(Append(saved, stream[nexts + 1]), nexts + 1, stream, i)

RECURSIVE SavedFill(_, _, _, _)
\* while self.saved.len() <= i { self.saved.push(self.iter.next().unwrap()) }
SavedFill(saved, nexts, stream, i) ==
    IF Len(saved) > i THEN RSome([saved |-> saved, nexts |-> nexts])
    ELSE IF nexts >= Len(stream) THEN RPanic
    ELSE SavedFill(Append(saved, stream[nexts + 1]), nexts + 1, stream, i)

SInit ==
    /\ sStream \in SavedStreams
    /\ sSaved = <<>>
    /\ sNexts = 0
    /\ sGot = <<>>
    /\ sPc = "run"
    /\ HIdle
    /\ OIdle
    /\ PIdle
    /\ QIdle
    /\ IIdle
    /\ DIdle

\* get(i) returns self.saved[i]
SGet ==
    /\ sPc = "run"
    /\ Len(sGot) < MaxGets
    /\ \E i \in 0..MaxLen :
       \E r \in {SavedFill(sSaved, sNexts, sStream, i)} :
          /\ r.tag = "Some"
          /\ sSaved' = r.val.saved
          /\ sNexts' = r.val.nexts
          /\ sGot' = Append(sGot, [i |-> i, val |-> r.val.saved[i + 1],
                                   taken |-> r.val.nexts - sNexts])
    /\ UNCHANGED <<sStream, sPc, OutsideSaved>>

\* get(i) past the end of the iterator: iter.next().unwrap() panics
SGetPanic ==
    /\ sPc = "run"
    /\ Len(sGot) < MaxGets
    /\ \E i \in 0..MaxLen : SavedFill(sSaved, sNexts, sStream, i).tag = "Panic"
    /\ sSaved' = sStream
    /\ sNexts' = Len(sStream)
    /\ sPc' = "panic"
    /\ UNCHANGED <<sStream, sGot, OutsideSaved>>

SNext == SGet \/ SGetPanic

SpecSaved == SInit /\ [][SNext]_vars

\* s is a prefix of t
IsPrefix(s, t) == Len(s) <= Len(t) /\ SubSeq(t, 1, Len(s)) = s

\* the state of SavedIter after calls of get with indices below the stream length
SavedState ==
    sPc = "run" =>
       /\ \A k \in DOMAIN sGot : sGot[k].val = sStream[sGot[k].i + 1]
       /\ IsPrefix(sSaved, sStream)
       /\ sNexts = SetMax({0} \cup { sGot[k].i + 1 : k \in DOMAIN sGot })
       /\ \A k \in DOMAIN sGot :
             (\E m \in 1..(k - 1) : sGot[m].i = sGot[k].i) => sGot[k].taken = 0

\* C15: get(i) returns the i-th item of the underlying stream; saved is a
\* prefix of the stream and only grows; the iterator has been advanced
\* (largest index requested + 1) times; a repeated get(i) returns the same
\* item without advancing the iterator.
C15_SavedIterMemoizes == []SavedState /\ [][IsPrefix(sSaved, sSaved')]_vars

\* the calls of the saved_iter test: get(0), get(1), get(0) on three items,
\* which leave the third item in the iterator
C15_Witness ==
    /\ sStream = SavedIterTest
    /\ Len(sGot) = 3
    /\ sGot[1].i = 0 /\ sGot[2].i = 1 /\ sGot[3].i = 0
    /\ sGot[3].taken = 0
    /\ sNexts = 2

(***************************************************************************)
(* MatchIter and PuzzleIter side by side                                   *)
(***************************************************************************)

ItersInit == OInit \/ PInit

ItersNext == ONext \/ PNext

SpecIters == ItersInit /\ [][ItersNext]_vars

\* the last call of MatchIter::next returned Some
OrbitJustYielded == oPc = "run" /\ oOut # <<>>

\* the last call of PuzzleIter::next returned Some
PuzzleJustYielded == pPc \in {"iter", "returned"} /\ pOut # <<>>

\* after a next that returned Some: the cache holds the yielded node, and the
\* nodes split so far are the ones yielded before it, each once
DeferredState ==
    /\ OrbitJustYielded =>
          /\ IsSome(oCache)
          /\ Unwrap(oCache).allowed = oOut[Len(oOut)].allowed
          /\ Unwrap(oCache).matching = oOut[Len(oOut)].matching
          /\ oSplit = [k \in 1..(Len(oOut) - 1) |-> k]
    /\ PuzzleJustYielded =>
          /\ IsSome(pCache)
          /\ Unwrap(pCache).idxs = pOut[Len(pOut)].idxs
          /\ pSplit = [k \in 1..(Len(pOut) - 1) |-> k]

\* a next that returns Some adds to the heap the children of the node cached
\* before the call and nothing else: none of the children of the node it yields
DeferredStep ==
    /\ oOut' # oOut =>
          oHeap' \sqsubseteq OrbitHeapExtended(oHeap, oCache, oCost).val
    /\ pOut' # pOut =>
          pHeap' \sqsubseteq
             (pHeap (+) SeqToBag(IF IsSome(pCache)
                                 THEN PuzzleHeapElt_split(Unwrap(pCache), pStreams).val
                                 ELSE <<>>))

\* C14: in both MatchIter and PuzzleIter a yielded node is split only at the
\* start of the following call of next: after a next that returned Some the
\* cache holds exactly the yielded node, the heap holds none of its children,
\* m outputs have caused m - 1 splits, and no yielded node is split twice.
C14_DeferredBranching == []DeferredState /\ [][DeferredStep]_vars

\* both iterators at work: three nodes yielded by an orbit stream with two
\* splits behind it, or three vectors yielded by the merge
C14_Witness ==
    \/ (OrbitJustYielded /\ Len(oOut) >= 3 /\ Len(oSplit) = 2)
    \/ (PuzzleJustYielded /\ Len(pOut) >= 3 /\ Len(pSplit) = 2)

\* ---------------------------------------------------------------------------
\* quickselect (inference.rs)
\* ---------------------------------------------------------------------------

\* greatest length of the enumerated slices
MaxQLen == 4

\* greatest key of the enumerated slices; keys repeat, so ties happen
MaxQVal == 2

\* the slice of the test: every key is paired with its index, and only the
\* key is compared
Keyed(keys) == [i \in 0..(Len(keys) - 1) |-> <<keys[i + 1], i>>]

\* by(a, b) is Ordering::Less, with by = |a, b| a.0.total_cmp(&b.0)
IsLess(a, b) == a[1] < b[1]

\* slice.swap(a, b)
Swap(arr, a, b) == [arr EXCEPT ![a] = arr[b], ![b] = arr[a]]

RECURSIVE ScanUp(_, _, _, _)
\* while i < slice.len() && !matches!(by(&slice[i], &slice[0]), Less) { i += 1 }
ScanUp(arr, lo, len, i) ==
    IF i < len /\ ~IsLess(arr[lo + i], arr[lo]) THEN ScanUp(arr, lo, len, i + 1)
    ELSE i

RECURSIVE ScanDown(_, _, _, _)
\* while matches!(by(&slice[j], &slice[0]), Less) { j -= 1 }; an index that
\* leaves the slice panics, which is reported as -1
ScanDown(arr, lo, len, j) ==
    IF j < 0 \/ j >= len THEN -1
    ELSE IF IsLess(arr[lo + j], arr[lo]) THEN ScanDown(arr, lo, len, j - 1)
    ELSE j

RECURSIVE PartitionLoop_NoFinalSwap(_, _, _, _, _)
\* the loop of partition without slice.swap(0, j) before the return
PartitionLoop_NoFinalSwap(arr, lo, len, i, j) ==
    LET i2 == ScanUp(arr, lo, len, i)
        j2 == ScanDown(arr, lo, len, j)
    IN IF j2 < 0 THEN RPanic
       ELSE IF i2 > j2 THEN RSome([arr |-> arr, spot |-> j2])
       ELSE PartitionLoop_NoFinalSwap(Swap(arr, lo + i2, lo + j2), lo, len, i2 + 1, j2)

RECURSIVE PartitionLoop(_, _, _, _, _)
\* the loop of partition, entered with i and j
PartitionLoop(arr, lo, len, i, j) ==
    LET i2 == ScanUp(arr, lo, len, i)
        j2 == ScanDown(arr, lo, len, j)
    IN IF j2 < 0 THEN RPanic
       ELSE IF i2 > j2 THEN RSome([arr |-> Swap(arr, lo, lo + j2), spot |-> j2])
       ELSE PartitionLoop(Swap(arr, lo + i2, lo + j2), lo, len, i2 + 1, j2)

\* partition of the sub-slice arr[lo .. lo + len), r being the value of
\* rng.random_range(0..slice.len())
partition(arr, lo, len, r) ==
    PartitionLoop(Swap(arr, lo, lo + r), lo, len, 1, len - 1)

\* the calls of verify in test_quickselect
QuickselectTests ==
    { [slice |-> <<5, 4, 3, 2, 1>>, pos |-> 2],
      [slice |-> <<1, 2, 3, 4, 5>>, pos |-> 2],
      [slice |-> <<1, 2, 1, 4, 3>>, pos |-> 3] }

\* every slice of 1..MaxQLen keys with every find_spot inside it
QuickselectCalls ==
    QuickselectTests \cup
    UNION { { [slice |-> sl, pos |-> k] : sl \in [1..n -> 0..MaxQVal], k \in 0..(n - 1) }
            : n \in 1..MaxQLen }

QInit ==
    /\ \E c \in QuickselectCalls :
          /\ qInput = Keyed(c.slice)
          /\ qArr = Keyed(c.slice)
          /\ qLen = Len(c.slice)
          /\ qFind = c.pos
          /\ qK = c.pos
    /\ qLo = 0
    /\ qPc = "loop"
    /\ HIdle
    /\ OIdle
    /\ PIdle
    /\ SIdle
    /\ IIdle
    /\ DIdle

\* if len < 2 { return }
QReturnShort ==
    /\ qPc = "loop"
    /\ qLen < 2
    /\ qPc' = "done"
    /\ UNCHANGED <<qInput, qArr, qLo, qLen, qFind, qK, OutsideQuickselect>>

\* Ordering::Less => slice = &mut slice[0..spot_found]
QNarrowLeft ==
    /\ qPc = "loop"
    /\ qLen >= 2
    /\ \E r \in 0..(qLen - 1) :
       \E p \in {partition(qArr, qLo, qLen, r)} :
          /\ p.tag = "Some"
          /\ qFind < p.val.spot
          /\ qArr' = p.val.arr
          /\ qLen' = p.val.spot
    /\ UNCHANGED <<qInput, qLo, qFind, qK, qPc, OutsideQuickselect>>

\* Ordering::Equal => return
QFound ==
    /\ qPc = "loop"
    /\ qLen >= 2
    /\ \E r \in 0..(qLen - 1) :
       \E p \in {partition(qArr, qLo, qLen, r)} :
          /\ p.tag = "Some"
          /\ qFind = p.val.spot
          /\ qArr' = p.val.arr
    /\ qPc' = "done"
    /\ UNCHANGED <<qInput, qLo, qLen, qFind, qK, OutsideQuickselect>>

\* Ordering::Greater => slice = &mut slice[spot_found + 1..len];
\*                      find_spot = find_spot - spot_found - 1
QNarrowRight ==
    /\ qPc = "loop"
    /\ qLen >= 2
    /\ \E r \in 0..(qLen - 1) :
       \E p \in {partition(qArr, qLo, qLen, r)} :
          /\ p.tag = "Some"
          /\ qFind > p.val.spot
          /\ qArr' = p.val.arr
          /\ qLo' = qLo + p.val.spot + 1
          /\ qLen' = qLen - p.val.spot - 1
          /\ qFind' = qFind - p.val.spot - 1
    /\ UNCHANGED <<qInput, qK, qPc, OutsideQuickselect>>

QNext == QReturnShort \/ QNarrowLeft \/ QFound \/ QNarrowRight

SpecQuickselect == QInit /\ [][QNext]_vars

\* the loop of quickselect is not suspended: a call that can take a step
\* takes one.  A panic inside partition leaves no step to take.
FairQuickselect == SpecQuickselect /\ WF_vars(QNext)

RECURSIVE SortDesc(_, _)
\* slice.sort_by(|a, b| b.0.total_cmp(&a.0)), as the sequence of keys
SortDesc(arr, idxs) ==
    IF idxs = {} THEN <<>>
    ELSE LET m == CHOOSE i \in idxs : \A j \in idxs : arr[j][1] <= arr[i][1]
         IN <<arr[m][1]>> \o SortDesc(arr, idxs \ {m})

\* arr holds exactly the elements of input, each once
IsPermutation(arr, input) ==
    /\ DOMAIN arr = DOMAIN input
    /\ \A i \in DOMAIN input : Cardinality({ j \in DOMAIN arr : arr[j] = input[i] }) = 1

\* what verify asserts, and that nothing was lost from the slice
QuickselectPost ==
    /\ IsPermutation(qArr, qInput)
    /\ \A i \in DOMAIN qArr : i < qK => qArr[i][1] >= qArr[qK][1]
    /\ \A i \in DOMAIN qArr : i > qK => qArr[i][1] <= qArr[qK][1]
    /\ qArr[qK][1] = SortDesc(qInput, DOMAIN qInput)[qK + 1]

\* C19: for every slice of length n >= 1, every k < n and every sequence of
\* pivot choices, quickselect returns, and when it has returned the slice is
\* a permutation of the input in which every element before index k is >=
\* the element at k, every element after index k is <= it, and the element
\* at k is the k-th of the input sorted in descending order.
C19_QuickselectPostcondition ==
    /\ [](qPc = "done" => QuickselectPost)
    /\ <>(qPc = "done")

\* quickselect has returned on a slice with a repeated key, after it
\* narrowed to the right of a pivot and moved elements
C19_Witness ==
    /\ qPc = "done"
    /\ qLo > 0
    /\ qArr # qInput
    /\ \E i, j \in DOMAIN qInput : i # j /\ qInput[i][1] = qInput[j][1]
    /\ QuickselectPost

\* ---------------------------------------------------------------------------
\* CVProcessor and Inference (lib.rs, inference.rs)
\* ---------------------------------------------------------------------------

\* number of pixels of the images
ImagePixels == 2

\* greatest number of calibrate calls
MaxCalibrations == 2

MAX_NEAREST_N == 10

MAX_FRACTION == 8

\* group.facelet_colors() of the puzzle: two facelets, one of each color
FaceletColors == <<"white", "yellow">>

\* group.facelet_count()
Facelets == 0..(Len(FaceletColors) - 1)

\* colors: the distinct facelet colors
Colors == { FaceletColors[f + 1] : f \in Facelets }

\* the states of the puzzle, each as its comes_from mapping
States == Perms(Len(FaceletColors))

\* the (r, g, b) values a pixel takes
Shades == { <<0, 0, 0>>, <<1, 1, 1>> }

\* enum Pixel
Unassigned == [kind |-> "Unassigned"]
WhiteBalance == [kind |-> "WhiteBalance"]
Sticker(s) == [kind |-> "Sticker", sticker |-> s]

\* the assignments CVProcessor::new is called with: one pixel fewer than
\* image_size up to one more, and sticker numbers up to one past the last
PixelAssignments ==
    UNION { [1..n -> {Unassigned, WhiteBalance}
                     \cup { Sticker(f) : f \in 0..Len(FaceletColors) }]
            : n \in (ImagePixels - 1)..(ImagePixels + 1) }

\* the images and pictures handed to calibrate and process_image: of
\* image_size pixels, or one pixel short
Images == UNION { [1..n -> Shades] : n \in (ImagePixels - 1)..ImagePixels }

\* empty_kdtrees: one empty KdTree per color; a tree is the sequence of the
\* points added to it
EmptyKdtrees == [c \in Colors |-> <<>>]

RECURSIVE PixelsOfSticker_WhiteBalanceToo(_, _, _)
\* PixelsOfSticker listing the white balance pixels as well
PixelsOfSticker_WhiteBalanceToo(assignment, sticker, from) ==
    IF from > Len(assignment) THEN <<>>
    ELSE IF assignment[from] \in {Sticker(sticker), WhiteBalance}
         THEN <<[idx |-> from - 1, kdtrees |-> EmptyKdtrees]>>
              \o PixelsOfSticker_WhiteBalanceToo(assignment, sticker, from + 1)
         ELSE PixelsOfSticker_WhiteBalanceToo(assignment, sticker, from + 1)

RECURSIVE PixelsOfSticker(_, _, _)
\* the pixels pushed to pixels_by_sticker[sticker], in the order of their idx
PixelsOfSticker(assignment, sticker, from) ==
    IF from > Len(assignment) THEN <<>>
    ELSE IF assignment[from] = Sticker(sticker)
         THEN <<[idx |-> from - 1, kdtrees |-> EmptyKdtrees]>>
              \o PixelsOfSticker(assignment, sticker, from + 1)
         ELSE PixelsOfSticker(assignment, sticker, from + 1)

\* Inference::new
InferenceNew(assignment) == [s \in Facelets |-> PixelsOfSticker(assignment, s, 1)]

\* densities are counted in units of 1 / (DensityScale * UNIT_SPHERE), which
\* makes every finite density of the model a whole number
DensityScale == 162

\* the density of a sample at distance 0: (0 * UNIT_SPHERE).recip() is +inf
DensityInf == DensityScale + 1

\* SquaredEuclidean
SquaredEuclidean(a, b) ==
    (a[1] - b[1]) * (a[1] - b[1]) + (a[2] - b[2]) * (a[2] - b[2])
    + (a[3] - b[3]) * (a[3] - b[3])

RECURSIVE SortedDistances(_, _, _)
\* the distances from query to the points of the tree, nearest first
SortedDistances(kdtree, query, idxs) ==
    IF idxs = {} THEN <<>>
    ELSE LET m == CHOOSE i \in idxs : \A j \in idxs :
                     SquaredEuclidean(kdtree[i], query) <= SquaredEuclidean(kdtree[j], query)
         IN <<SquaredEuclidean(kdtree[m], query)>> \o SortedDistances(kdtree, query, idxs \ {m})

\* kdtree.nearest_n::<SquaredEuclidean>(query, n): the n nearest, or all of
\* them when the tree holds fewer; nothing when the tree is empty
nearest_n(kdtree, query, n) ==
    LET all == SortedDistances(kdtree, query, DOMAIN kdtree)
    IN SubSeq(all, 1, IF n < Len(all) THEN n ELSE Len(all))

\* NeighbourCount without the .max(1)
NeighbourCount_NoFloor(size) ==
    IF MAX_NEAREST_N <= size \div MAX_FRACTION THEN MAX_NEAREST_N
    ELSE size \div MAX_FRACTION

\* n = MAX_NEAREST_N.min(kdtree.size() / MAX_FRACTION).max(1)
NeighbourCount(size) ==
    Max2(IF MAX_NEAREST_N <= size \div MAX_FRACTION THEN MAX_NEAREST_N
         ELSE size \div MAX_FRACTION, 1)

\* density = n / size * (nn.last().unwrap().distance.powi(3) * UNIT_SPHERE).recip()
\* nn.last() of an empty result is None, and its unwrap panics
Density(kdtree, query) ==
    LET n == NeighbourCount(Len(kdtree))
        nn == nearest_n(kdtree, query, n)
    IN IF nn = <<>> THEN RPanic
       ELSE LET d == nn[Len(nn)]
            IN IF d = 0 THEN RSome(DensityInf)
               ELSE RSome((n * DensityScale) \div (Len(kdtree) * d * d * d))

RECURSIVE QuickselectRun(_, _, _, _, _)
\* quickselect run to its return, rs being the values the rng gives
QuickselectRun(arr, lo, len, find_spot, rs) ==
    IF len < 2 THEN RSome(arr)
    ELSE LET p == partition(arr, lo, len, Head(rs) % len)
         IN IF p.tag = "Panic" THEN RPanic
            ELSE IF find_spot < p.val.spot
                 THEN QuickselectRun(p.val.arr, lo, p.val.spot, find_spot, Tail(rs))
            ELSE IF find_spot = p.val.spot THEN RSome(p.val.arr)
            ELSE QuickselectRun(p.val.arr, lo + p.val.spot + 1, len - p.val.spot - 1,
                                find_spot - p.val.spot - 1, Tail(rs))

\* (CONFIDENCE_PERCENTILE * v.len() as f64).floor()
PercentileIndex(len) == len \div 5

\* Confidence reading the buffer at the first pivot the rng gives
Confidence_AtPivot(v, rs) ==
    IF v = <<>> THEN RSome(0) ELSE RSome(v[(Head(rs) % Len(v)) + 1])

\* the confidence of one color: 0 for an empty buffer, else v[n] after
\* quickselect; v holds the densities pushed for the color, pixel by pixel
Confidence(v, rs) ==
    IF v = <<>> THEN RSome(0)
    ELSE LET n == PercentileIndex(Len(v))
             arr == [i \in 0..(Len(v) - 1) |-> <<v[i + 1]>>]
             done == QuickselectRun(arr, 0, Len(v), n, rs)
         IN IF done.tag = "Panic" THEN RPanic ELSE RSome(done.val[n][1])

\* some pixel of the sticker has no sample of some color
HasEmptyIndex(pixels) ==
    \E i \in 1..Len(pixels) : \E c \in Colors : pixels[i].kdtrees[c] = <<>>

RECURSIVE PushFrom(_, _, _, _)
\* for pixel in v { for (color, kdtree) in &pixel.kdtrees { .. push(density) } }
\* from the i-th pixel on: Some(buffers), or a panic when picture[pixel.idx]
\* is outside the picture or a density panics
PushFrom(pixels, picture, i, confidences_by_pixel) ==
    IF i > Len(pixels) THEN RSome(confidences_by_pixel)
    ELSE IF pixels[i].idx >= Len(picture) THEN RPanic
    ELSE IF \E c \in Colors :
               Density(pixels[i].kdtrees[c], picture[pixels[i].idx + 1]).tag = "Panic"
         THEN RPanic
    ELSE PushFrom(pixels, picture, i + 1,
                  [c \in Colors |-> Append(confidences_by_pixel[c],
                        Density(pixels[i].kdtrees[c], picture[pixels[i].idx + 1]).val)])

\* a buffer that keeps its densities for the next sticker
Drained_Kept(v) == v

\* v.drain(..)
Drained(v) == SubSeq(v, 1, 0)

RECURSIVE InferFrom(_, _, _, _, _)
\* the closure of infer for the stickers s, s+1, ..: Some(sequence of maps)
InferFrom(pixels_by_sticker, picture, rs, s, confidences_by_pixel) ==
    IF s = Len(FaceletColors) THEN RSome(<<>>)
    ELSE Let(PushFrom(pixels_by_sticker[s], picture, 1, confidences_by_pixel), LAMBDA pushed :
         IF pushed.tag = "Panic" THEN RPanic
         ELSE Let([c \in Colors |-> Confidence(pushed.val[c], rs)], LAMBDA conf :
              IF \E c \in Colors : conf[c].tag = "Panic" THEN RPanic
              ELSE Let(InferFrom(pixels_by_sticker, picture, rs, s + 1,
                                 [c \in Colors |-> Drained(pushed.val[c])]), LAMBDA rest :
                   IF rest.tag = "Panic" THEN RPanic
                   ELSE RSome(<<[c \in Colors |-> conf[c].val]>> \o rest.val))))

\* Inference::infer: Some(one map per sticker), or a panic
Infer(pixels_by_sticker, picture, rs) ==
    Let(InferFrom(pixels_by_sticker, picture, rs, 0, [c \in Colors |-> <<>>]), LAMBDA r :
        IF r.tag = "Panic" THEN RPanic
        ELSE RSome([s \in Facelets |-> r.val[s + 1]]))

\* AddSample adding the sample to the index of every color
AddSample_AllColors(pixel, color, point) ==
    [pixel EXCEPT !.kdtrees = [c \in Colors |-> Append(pixel.kdtrees[c], point)]]

\* AddSample emptying the indices of the other colors
AddSample_Reset(pixel, color, point) ==
    [pixel EXCEPT !.kdtrees = [c \in Colors |->
        IF c = color THEN Append(pixel.kdtrees[c], point) ELSE <<>>]]

\* pixel.kdtrees.get_mut(color).unwrap().add(&[r, g, b], 0)
AddSample(pixel, color, point) ==
    [pixel EXCEPT !.kdtrees[color] = Append(@, point)]

RECURSIVE CalibrateFrom(_, _, _, _, _)
\* the loops of Inference::calibrate from pixel i of sticker s on; ok is
\* FALSE when image[pixel.idx] is outside the image, and pixels is then what
\* the loops had done before
CalibrateFrom(pixels_by_sticker, image, state, s, i) ==
    IF s = Len(FaceletColors) THEN [ok |-> TRUE, pixels |-> pixels_by_sticker]
    ELSE IF i > Len(pixels_by_sticker[s])
         THEN CalibrateFrom(pixels_by_sticker, image, state, s + 1, 1)
    ELSE IF pixels_by_sticker[s][i].idx >= Len(image)
         THEN [ok |-> FALSE, pixels |-> pixels_by_sticker]
    ELSE CalibrateFrom(
            [pixels_by_sticker EXCEPT ![s][i] =
                AddSample(@, FaceletColors[state[s] + 1], image[@.idx + 1])],
            image, state, s, i + 1)

\* Inference::calibrate
InferenceCalibrate(pixels_by_sticker, image, state) ==
    CalibrateFrom(pixels_by_sticker, image, state, 0, 1)

\* what iLast keeps of a call
CallRecord(op, image, state, empty, out) ==
    Some([op |-> op, image |-> image, state |-> state, empty |-> empty, out |-> out])

\* the arguments of CVProcessor::new
IInit ==
    /\ iAssign \in PixelAssignments
    /\ iImageSize = ImagePixels
    /\ iPixels = <<>>
    /\ iCals = 0
    /\ iLast = None
    /\ iPc = "new"
    /\ HIdle
    /\ OIdle
    /\ PIdle
    /\ SIdle
    /\ QIdle
    /\ DIdle

\* CVProcessor::new returns the processor
INew ==
    /\ iPc = "new"
    /\ \A i \in DOMAIN iAssign :
          iAssign[i].kind = "Sticker" => iAssign[i].sticker \in Facelets
    /\ iPixels' = InferenceNew(iAssign)
    /\ iPc' = "ready"
    /\ UNCHANGED <<iAssign, iImageSize, iCals, iLast, OutsideInference>>

\* CVProcessor::new panics: pixels_by_sticker[sticker] with sticker out of range
INewPanic ==
    /\ iPc = "new"
    /\ \E i \in DOMAIN iAssign :
          iAssign[i].kind = "Sticker" /\ iAssign[i].sticker \notin Facelets
    /\ iPc' = "panic"
    /\ UNCHANGED <<iAssign, iImageSize, iPixels, iCals, iLast, OutsideInference>>

\* CVProcessor::calibrate returns
ICalibrate ==
    /\ iPc = "ready"
    /\ iCals < MaxCalibrations
    /\ \E image \in Images, state \in States :
       \E r \in {InferenceCalibrate(iPixels, image, state)} :
          /\ iImageSize = Len(image)
          /\ r.ok
          /\ iPixels' = r.pixels
          /\ iLast' = CallRecord("calibrate", image, Some(state), FALSE, Some(<<>>))
    /\ iCals' = iCals + 1
    /\ UNCHANGED <<iAssign, iImageSize, iPc, OutsideInference>>

\* CVProcessor::calibrate panics at assert_eq!(self.image_size, image.len())
ICalibrateMismatch ==
    /\ iPc = "ready"
    /\ iCals < MaxCalibrations
    /\ \E image \in Images, state \in States :
          /\ iImageSize # Len(image)
          /\ iLast' = CallRecord("calibrate", image, Some(state), FALSE, None)
    /\ iPc' = "panic"
    /\ UNCHANGED <<iAssign, iImageSize, iPixels, iCals, OutsideInference>>

\* Inference::calibrate panics at image[pixel.idx]
ICalibrateOutOfImage ==
    /\ iPc = "ready"
    /\ iCals < MaxCalibrations
    /\ \E image \in Images, state \in States :
       \E r \in {InferenceCalibrate(iPixels, image, state)} :
          /\ iImageSize = Len(image)
          /\ ~r.ok
          /\ iPixels' = r.pixels
          /\ iLast' = CallRecord("calibrate", image, Some(state), FALSE, None)
    /\ iPc' = "panic"
    /\ UNCHANGED <<iAssign, iImageSize, iCals, OutsideInference>>

\* CVProcessor::process_image: Inference::infer returns
IInfer ==
    /\ iPc = "ready"
    /\ \E picture \in Images, rs \in [1..ImagePixels -> 0..(ImagePixels - 1)] :
       \E r \in {Infer(iPixels, picture, rs)} :
          /\ r.tag = "Some"
          /\ iLast' = CallRecord("infer", picture, None,
                                 \E s \in Facelets : HasEmptyIndex(iPixels[s]),
                                 Some(r.val))
    /\ UNCHANGED <<iAssign, iImageSize, iPixels, iCals, iPc, OutsideInference>>

\* CVProcessor::process_image: Inference::infer panics
IInferPanic ==
    /\ iPc = "ready"
    /\ \E picture \in Images, rs \in [1..ImagePixels -> 0..(ImagePixels - 1)] :
          /\ Infer(iPixels, picture, rs).tag = "Panic"
          /\ iLast' = CallRecord("infer", picture, None,
                                 \E s \in Facelets : HasEmptyIndex(iPixels[s]), None)
    /\ iPc' = "panic"
    /\ UNCHANGED <<iAssign, iImageSize, iPixels, iCals, OutsideInference>>

INext ==
    \/ INew
    \/ INewPanic
    \/ ICalibrate
    \/ ICalibrateMismatch
    \/ ICalibrateOutOfImage
    \/ IInfer
    \/ IInferPanic

SpecInference == IInit /\ [][INext]_vars

\* the last call was infer
LastInfer == IsSome(iLast) /\ Unwrap(iLast).op = "infer"

\* the last call was calibrate
LastCalibrate == IsSome(iLast) /\ Unwrap(iLast).op = "calibrate"

\* C20: when infer meets a pixel and a color whose spatial index holds no
\* sample (before any calibrate call, or a color never calibrated for that
\* sticker), infer completes normally.
C20_EmptyIndex ==
    (LastInfer /\ Unwrap(iLast).empty) => IsSome(Unwrap(iLast).out)

\* C21 (as claimed): CVProcessor::new fails whenever the assignment's length
\* differs from image_size, so no processor exists whose assignment length
\* is not image_size.
C21_ConstructionChecksLength ==
    iPc = "ready" => Len(iAssign) = iImageSize

\* this step is a call of calibrate that fails
CalibrateFails == iPc = "ready" /\ iPc' = "panic" /\ LastCalibrate'

\* C22 (as claimed): a calibrate that fails, by an image length mismatch or
\* by a pixel index outside the image, fails before any spatial index is
\* modified: every per-pixel per-color index is as it was before the call.
C22_NoPartialStateOnFailure ==
    [][CalibrateFails => iPixels' = iPixels]_vars

\* this step is a calibrate that returns, called with the image and the
\* permutation of the calibrate that returned just before it
CalibrateRepeats ==
    /\ LastCalibrate
    /\ iPc' = "ready"
    /\ iCals' = iCals + 1
    /\ iLast' = iLast

\* C23 (as claimed): a second calibrate with the same (image, permutation)
\* leaves every per-pixel per-color index with the contents and the size it
\* had after the first.
C23_CalibrateIdempotent ==
    [][CalibrateRepeats => iPixels' = iPixels]_vars

\* this step is a calibrate that returns
CalibrateReturns == iPc = "ready" /\ iPc' = "ready" /\ iCals' = iCals + 1

\* the color calibrate files the pixels of sticker s under
CalibratedColor(state, s) == FaceletColors[state[s] + 1]

\* C24: one successful calibrate(image, perm) inserts, for every sticker s
\* and every pixel assigned to s, exactly one sample image[pixel] into that
\* pixel's index for the color facelet_colors[perm.comes_from(s)], and
\* leaves that pixel's indices for every other color unchanged.
C24_CalibrateEffect ==
    [][CalibrateReturns =>
        \A s \in Facelets :
           /\ Len(iPixels'[s]) = Len(iPixels[s])
           /\ \A i \in 1..Len(iPixels[s]) :
                 /\ iPixels'[s][i].idx = iPixels[s][i].idx
                 /\ \A c \in Colors :
                       iPixels'[s][i].kdtrees[c] =
                          IF c = CalibratedColor(Unwrap(Unwrap(iLast').state), s)
                          THEN Append(iPixels[s][i].kdtrees[c],
                                      Unwrap(iLast').image[iPixels[s][i].idx + 1])
                          ELSE iPixels[s][i].kdtrees[c]]_vars

\* calibrate has returned on a processor with pixels on both stickers, for a
\* state that is not the identity, and the samples are in the indices of
\* the colors the state names
C24_Witness ==
    /\ LastCalibrate
    /\ iPc = "ready"
    /\ \A s \in Facelets : iPixels[s] # <<>>
    /\ \E s \in Facelets : Unwrap(Unwrap(iLast).state)[s] # s
    /\ \A s \in Facelets : \A i \in 1..Len(iPixels[s]) :
          /\ Len(iPixels[s][i].kdtrees[CalibratedColor(Unwrap(Unwrap(iLast).state), s)]) = 1
          /\ \A c \in Colors : Len(iPixels[s][i].kdtrees[c]) <= 1

\* this step is a call of infer, returning or not
InferStep == iPc = "ready" /\ LastInfer' /\ iCals' = iCals

\* every per-pixel color map has the distinct colors of the puzzle as keys
IndexKeys ==
    iPixels # <<>> =>
        \A s \in Facelets : \A i \in 1..Len(iPixels[s]) :
            DOMAIN iPixels[s][i].kdtrees = Colors

\* no index shrinks
IndicesGrow ==
    \A s \in Facelets :
       /\ Len(iPixels'[s]) = Len(iPixels[s])
       /\ \A i \in 1..Len(iPixels[s]) : \A c \in Colors :
             Len(iPixels'[s][i].kdtrees[c]) >= Len(iPixels[s][i].kdtrees[c])

\* C25: over any sequence of calibrate and infer / process_image calls on
\* one processor, the size of every per-pixel per-color index never
\* decreases, it changes only during calibrate, infer leaves every index
\* unchanged, and the key set of every per-pixel color map stays equal to
\* the puzzle's distinct colors.
C25_IndexLifecycle ==
    /\ []IndexKeys
    /\ [][iPc = "ready" =>
            /\ IndicesGrow
            /\ iPixels' # iPixels => (CalibrateReturns \/ CalibrateFails)
            /\ InferStep => iPixels' = iPixels]_vars

\* infer has returned after two calibrate calls filled, for some pixel, the
\* indices of both colors
C25_Witness ==
    /\ LastInfer
    /\ IsSome(Unwrap(iLast).out)
    /\ iCals = 2
    /\ \E s \in Facelets : \E i \in 1..Len(iPixels[s]) :
          \A c \in Colors : Len(iPixels[s][i].kdtrees[c]) = 1

\* the densities of one sticker's own pixels for one color, as a slice
OwnDensities(pixels, color, picture) ==
    [i \in 0..(Len(pixels) - 1) |->
        <<Density(pixels[i + 1].kdtrees[color], picture[pixels[i + 1].idx + 1]).val>>]

\* the element at index floor(0.2 * count) of the sticker's own densities in
\* descending order, 0 for a sticker without pixels
OwnConfidence(pixels, color, picture) ==
    IF pixels = <<>> THEN 0
    ELSE SortDesc(OwnDensities(pixels, color, picture),
                  0..(Len(pixels) - 1))[(Len(pixels) \div 5) + 1]

\* C26: infer returns one map per sticker, each keyed by every color; a
\* sticker's value for a color is the element at index floor(0.2 * count) of
\* that sticker's own per-pixel densities in descending order, is 0 when the
\* sticker has no pixels, and does not depend on the densities of a sticker
\* processed before it.
C26_PerStickerAggregation ==
    (LastInfer /\ IsSome(Unwrap(iLast).out)) =>
        /\ DOMAIN Unwrap(Unwrap(iLast).out) = Facelets
        /\ \A s \in Facelets :
              /\ DOMAIN Unwrap(Unwrap(iLast).out)[s] = Colors
              /\ \A c \in Colors :
                    Unwrap(Unwrap(iLast).out)[s][c] =
                       OwnConfidence(iPixels[s], c, Unwrap(iLast).image)

\* infer has returned for a processor whose first sticker has pixels, and
\* gave the second sticker a lower value than the first for some color
C26_Witness ==
    /\ LastInfer
    /\ IsSome(Unwrap(iLast).out)
    /\ iPixels[0] # <<>>
    /\ \E c \in Colors :
          Unwrap(Unwrap(iLast).out)[1][c] < Unwrap(Unwrap(iLast).out)[0][c]

\* the places of the image that calibrate (image[pixel.idx]) and infer
\* (picture[pixel.idx]) index
PixelReads(pixels_by_sticker) ==
    UNION { { pixels_by_sticker[s][i].idx : i \in DOMAIN pixels_by_sticker[s] }
            : s \in Facelets }

\* how often the pixel idx is in the pixel list of sticker s
Occurrences(idx, s) ==
    Cardinality({ i \in 1..Len(iPixels[s]) : iPixels[s][i].idx = idx })

ElementAt(idxs, j) == pStreams[j][idxs[j] + 1]

\* C32: every output of PuzzleIter for an index vector carries the sum of
\* the log-likelihoods of the elements the vector names, equal to the key
\* the vector had in the heap, and the permutation whose cycles are the
\* cycles of those per-orbit permutations concatenated in orbit order; with
\* zero orbits the stream yields exactly one output (identity, 0) and then
\* None.
C32_Composition ==
    /\ \A n \in DOMAIN pOut :
          /\ pOut[n].log_likelihood =
                SumSeq([j \in DOMAIN pStreams |-> ElementAt(pOut[n].idxs, j).ll])
          /\ pOut[n].perm =
                from_cycles(Concat([j \in DOMAIN pStreams |-> ElementAt(pOut[n].idxs, j).perm]))
    /\ IsSome(pCache) =>
          /\ Unwrap(pCache).idxs = pOut[Len(pOut)].idxs
          /\ Unwrap(pCache).log_likelihood = pOut[Len(pOut)].log_likelihood
    /\ pStreams = <<>> =>
          /\ Len(pOut) <= 1
          /\ \A n \in DOMAIN pOut : pOut[n].perm = {} /\ pOut[n].log_likelihood = 0
          /\ pPc = "exhausted" => Len(pOut) = 1

\* two orbits, and an output that takes a later element of each of them,
\* with a log-likelihood below that of the first output
C32_Witness ==
    /\ Len(pStreams) = 2
    /\ Len(pOut) >= 2
    /\ \A j \in DOMAIN pStreams : pOut[Len(pOut)].idxs[j] >= 1
    /\ pOut[Len(pOut)].log_likelihood < pOut[1].log_likelihood
    /\ Cardinality(pOut[Len(pOut)].perm) >= 4

\* the largest index of orbit stream j among the vectors yielded so far
LargestYielded(j) == SetMax({ pOut[n].idxs[j] : n \in DOMAIN pOut })

\* C36: after any sequence of PuzzleIter::next calls the number of elements
\* drawn from orbit stream j is at most 2 plus the largest j-th index among
\* the vectors yielded so far (1 after construction), and constructing
\* PuzzleIter draws exactly one element from every orbit stream.
C36_MergeLaziness ==
    /\ pPc = "new" => \A j \in DOMAIN pStreams : pDrawn[j] = 0
    /\ pPc \in {"iter", "returned", "exhausted"} =>
          \A j \in DOMAIN pStreams :
              IF pOut = <<>> THEN pDrawn[j] = 1
              ELSE pDrawn[j] >= 1 /\ pDrawn[j] <= 2 + LargestYielded(j)

\* two orbits after several calls: one stream drawn to the bound, past its
\* second element, the other drawn less than the bound allows
C36_Witness ==
    /\ pPc \in {"iter", "returned"}
    /\ Len(pStreams) = 2
    /\ Len(pOut) >= 3
    /\ \E j \in DOMAIN pStreams : LargestYielded(j) >= 1 /\ pDrawn[j] = 2 + LargestYielded(j)
    /\ \E j \in DOMAIN pStreams : pDrawn[j] < 2 + LargestYielded(j)

(***************************************************************************)
(* inference.rs: the neighbours queried for one index                      *)
(***************************************************************************)

\* greatest kdtree.size() of the indices queried
MaxIndexSize == 90

\* the samples of an index of N points: the same point N times, or points
\* spread over several distances from the query
SamePoint(k) == <<1, 1, 1>>
SpreadPoint(k) == <<k % 7, k % 5, 1>>
IndexTrees ==
    UNION { { [k \in 1..size |-> SamePoint(k)], [k \in 1..size |-> SpreadPoint(k)] }
            : size \in 0..MaxIndexSize }

\* one (color, kdtree) of one pixel, as the inner loop of infer meets it
DInit ==
    /\ dTree \in IndexTrees
    /\ dQuery \in Shades
    /\ dN = 0
    /\ dNn = <<>>
    /\ dPc = "query"
    /\ HIdle
    /\ OIdle
    /\ PIdle
    /\ SIdle
    /\ QIdle
    /\ IIdle

\* n is computed, nearest_n is queried, and nn.last().unwrap() gives the
\* sample whose distance the density is taken from
DQuery ==
    /\ dPc = "query"
    /\ \E n \in {NeighbourCount(Len(dTree))} :
       \E nn \in {nearest_n(dTree, dQuery, n)} :
          /\ nn # <<>>
          /\ dN' = n
          /\ dNn' = nn
    /\ dPc' = "pushed"
    /\ UNCHANGED <<dTree, dQuery, OutsideDensity>>

\* nearest_n returns nothing and nn.last().unwrap() panics
DQueryPanic ==
    /\ dPc = "query"
    /\ \E n \in {NeighbourCount(Len(dTree))} :
       \E nn \in {nearest_n(dTree, dQuery, n)} :
          /\ nn = <<>>
          /\ dN' = n
          /\ dNn' = nn
    /\ dPc' = "panic"
    /\ UNCHANGED <<dTree, dQuery, OutsideDensity>>

DNext == DQuery \/ DQueryPanic

SpecDensity == DInit /\ [][DNext]_vars

\* the number of points of the index within distance d of the query
Within(d) ==
    Cardinality({ k \in DOMAIN dTree : SquaredEuclidean(dTree[k], dQuery) <= d })

\* C37: for every index size N >= 1 the number of neighbors queried is
\* n = max(1, min(10, floor(N / 8))), which satisfies 1 <= n <= 10 and
\* n <= N, so the query always returns n samples and the farthest of them
\* defines d_n.
C37_NeighbourCount ==
    (dPc # "query" /\ Len(dTree) >= 1) =>
        /\ dPc = "pushed"
        /\ dN = SetMax({1, SetMin({10, Len(dTree) \div 8})})
        /\ 1 <= dN /\ dN <= 10 /\ dN <= Len(dTree)
        /\ Len(dNn) = dN
        /\ \A a, b \in DOMAIN dNn : a <= b => dNn[a] <= dNn[b]
        /\ Within(dNn[Len(dNn)]) >= dN
        /\ dNn[Len(dNn)] > 0 => Within(dNn[Len(dNn)] - 1) < dN

\* an index large enough for floor(N / 8) to count, below the cap of 10,
\* whose n-th nearest sample is farther than its nearest
C37_Witness ==
    /\ dPc = "pushed"
    /\ dN > 1 /\ dN < 10
    /\ dNn[1] < dNn[Len(dNn)]

(***************************************************************************)
(* inference.rs: the random pivots of quickselect                          *)
(***************************************************************************)

\* the values the rng may give to the quickselect calls of one infer
PivotChoices == [1..ImagePixels -> 0..(ImagePixels - 1)]

\* C38: for the same calibrated state and the same image, two runs of infer
\* that differ only in the random pivots chosen inside quickselect return
\* identical per-sticker per-color values, so the result of process_image
\* does not depend on the random number generator.
C38_RngIndependence ==
    LastInfer =>
        \A rs \in PivotChoices :
            Infer(iPixels, Unwrap(iLast).image, rs) =
                (IF IsSome(Unwrap(iLast).out) THEN RSome(Unwrap(Unwrap(iLast).out)) ELSE RPanic)

\* infer returned for a sticker with two pixels whose densities for a color
\* differ, so that the pivot decides what partition swaps
C38_Witness ==
    /\ LastInfer
    /\ IsSome(Unwrap(iLast).out)
    /\ \E s \in Facelets : \E c \in Colors :
          /\ Len(iPixels[s]) = 2
          /\ OwnDensities(iPixels[s], c, Unwrap(iLast).image)[0]
                # OwnDensities(iPixels[s], c, Unwrap(iLast).image)[1]

====
